---- MODULE Spec2Model ----
(***************************************************************************)
(* State-machine model of the acquisition pipeline of ai_news_agent:       *)
(*   - utils/rate_limiter.py   RateLimiter (token buckets per domain) and  *)
(*                             ConcurrencyLimiter (a semaphore per domain) *)
(*   - collectors/rss.py       RSSCollector._fetch_feed (fetch with retry) *)
(*                                                                         *)
(* Coroutines are the tasks of one asyncio event loop: a task runs from    *)
(* one await that suspends to the next, so every action below is the code  *)
(* between two suspension points.                                          *)
(*                                                                         *)
(* Time.  One tick is 1/TicksPerSecond seconds.  The program reads the     *)
(* clock only as differences (time.time() - last_update[key], and the      *)
(* length of a sleep), so the model keeps, instead of the unbounded        *)
(* time.time(), the time since last_update[key] (since_update) and the     *)
(* time left of every pending asyncio.sleep (timer).  Tick advances both.  *)
(***************************************************************************)
EXTENDS Integers, Sequences, FiniteSets, TLC

\* ------------------------------------------------------------------ bounds

\* Number of coroutines that call RateLimiter.acquire concurrently.
NumTasks == 2

\* Number of coroutines that use the ConcurrencyLimiter concurrently.
NumUsers == 3

\* Number of collection cycles (calls of RSSCollector.collect) of a run.
MaxCycles == 1

\* Number of calls of RSSCollectorWithStorage.collect_and_store of a run.
MaxRuns == 2

\* Number of items the store holds when a deduplication session begins.
MaxStored == 2

\* Largest number of texts of a call of EmbeddingService.encode_batch.
MaxBatch == 3

\* Largest number of tokens a caller of RateLimiter.acquire asks for
\* (burst + 1: a request that the bucket can never hold).
MaxTokens == 6

\* ------------------------------------------------------- program constants

\* RateLimiter(rate=2.0, burst=5, per_domain=True) of RSSCollector.__init__
rate == 2
burst == 5
per_domain == TRUE

\* ConcurrencyLimiter(max_concurrent=3) of RSSCollector.__init__, and the
\* default of ConcurrencyLimiter.__init__ (the limiter of the unit tests)
CollectorMaxConcurrent == 3
DefaultMaxConcurrent == 2

\* settings.max_retries and settings.retry_delay (seconds)
max_retries == 3
retry_delay == 1

\* Clock resolution: 1/rate seconds per tick, so that elapsed * rate and
\* (tokens - bucket) / rate are whole numbers of tokens and ticks.
TicksPerSecond == rate

\* An asyncio.Lock that no task holds.
NoTask == 0

\* The token amounts callers pass to acquire (the default is 1.0).
TokenAmounts == {1, MaxTokens}

\* The URLs the callers use, and urlparse(url).netloc of each ("" when the
\* string has no network location).
Urls == {"https://example.com/feed1", "https://example.com/feed2",
         "not a url"}

netloc(url) ==
    IF Len(url) >= 20 /\ SubSeq(url, 1, 20) = "https://example.com/"
    THEN "example.com" ELSE ""

\* RateLimiter._get_bucket_key
get_bucket_key(url) ==
    IF ~per_domain THEN "global"
    ELSE IF netloc(url) # "" THEN netloc(url) ELSE "unknown"

BucketKeys == {get_bucket_key(u) : u \in Urls}

Min(a, b) == IF a <= b THEN a ELSE b

VARIABLES
    \* --- RateLimiter
    buckets,        \* self.buckets: a defaultdict, [keys read so far -> tokens]
    since_update,   \* time.time() - self.last_update[key], in ticks, for the
                    \* keys of self.last_update (see Tick)
    rl_lock,        \* self._lock: the task that holds it, or NoTask
    \* --- ConcurrencyLimiter
    max_concurrent, \* self.max_concurrent
    semaphores,     \* self.semaphores: [domains so far -> semaphore object]
    sem_value,      \* the asyncio.Semaphore objects created so far, by
                    \* identity 1, 2, ...: the free permits of each
    \* --- per task (coroutine) state
    pc,             \* the suspension point the task is at
    url,            \* the url the task works on
    bucket_key,     \* RateLimiter.acquire's local bucket_key
    tokens,         \* RateLimiter.acquire's argument tokens
    timer,          \* ticks left of the task's pending asyncio.sleep
    semaphore,      \* the semaphore object ConcurrencyLimiter.acquire
                    \* returned to the task (0: none)
    \* --- RSSCollector
    attempt,        \* _fetch_feed's loop variable attempt
    result,         \* what the task's _fetch_feed returned (a list of items)
    stats,          \* self.stats: [feed name -> CollectorStats]
    cycle,          \* number of the running collection cycle
    \* --- history, for the claims
    burst_run,      \* per key: how many acquires entered in the key's
                    \* initial run of unit requests with no time elapsed
    requests,       \* per task: session.get calls made in this cycle
    failures,       \* per task: failed attempts in this cycle
    stats_before,   \* per task: its feed's stats when the cycle began
    status_only,    \* every failed attempt of this cycle so far was a
                    \* response with a status other than 200
    \* --- RSSCollectorWithStorage
    cs_pc,          \* where collect_and_store is: "idle", "collect" (awaiting
                    \* self.collect()), "store" (lines 53-137 to come)
    all_items,      \* collect's local all_items when it returned
    collected,      \* what the last self.collect() returned
    returned,       \* what the last collect_and_store returned
    \* --- the database
    news_items,     \* table news_items: the committed rows
    dedup_cache,    \* table deduplication_cache: the committed rows
    \* --- DeduplicationService
    items_cache,    \* self._items_cache: the rows loaded, in order
    cache_loaded,   \* self._cache_loaded
    embedding_cache,\* self._embedding_cache: the ids it has a vector for
    verdicts,       \* what the last check_duplicate (one verdict) or
                    \* check_batch returned
    checked,        \* that call and the items it was given
    \* --- EmbeddingService
    embed_files,    \* the .npy files of cache_dir: cache key -> content
    embed_call,     \* the last call of encode or encode_batch and its texts
    embed_out,      \* what that call returned
    invoked,        \* the calls of the embedder that call made, each with
                    \* the texts it was given
    \* --- TTLCache
    ttl_cache,      \* self._cache, in insertion order: the entries
                    \* [key, age, value], age being time.time() - timestamp
                    \* in seconds (see CacheTick)
    access_count,   \* self._access_count: [keys counted -> hits]
    cache_call,     \* the last call of the cache or of a cached function
    cache_out,      \* what that call returned
    used,           \* history: the keys of self._cache, the one whose last
                    \* get or set is oldest first
    func,           \* the function @cached wraps: [argument -> outcome]
    call_count,     \* history: how often func ran, per argument
    \* --- Scheduler
    tasks,          \* self.tasks: [name -> ScheduledTask]
    jobs,           \* the jobs of self.scheduler: [job id -> cron trigger]
    sched_call,     \* the last call of the scheduler
    sched_out,      \* how that call ended
    executions      \* number of _run_task executions so far

rlVars == <<buckets, since_update, rl_lock, burst_run>>
clVars == <<max_concurrent, semaphores, sem_value>>
taskVars == <<pc, url, bucket_key, tokens, timer, semaphore>>
fetchVars == <<attempt, result, stats, cycle, requests, failures, stats_before,
              status_only>>
storeVars == <<cs_pc, all_items, collected, returned>>
dbVars == <<news_items, dedup_cache>>
serviceVars == <<items_cache, cache_loaded, embedding_cache, verdicts, checked>>
embedVars == <<embed_files, embed_call, embed_out, invoked>>
cacheVars == <<ttl_cache, access_count, cache_call, cache_out, used, func,
              call_count>>
schedVars == <<tasks, jobs, sched_call, sched_out, executions>>
vars == <<rlVars, clVars, taskVars, fetchVars, storeVars, dbVars, serviceVars,
          embedVars, cacheVars, schedVars>>

\* The coroutines of the run.
Tasks == DOMAIN pc

\* ------------------------------------------------------------ RateLimiter

\* elapsed * self.rate, elapsed given in ticks
TokensFor(elapsed) == (elapsed * rate) \div TicksPerSecond

\* self.buckets[key] and self.last_update[key]: a defaultdict creates the
\* entry on first read: float(burst), and time.time().  That clock reading
\* is taken microseconds after acquire's `now`: at the resolution of a tick
\* the elapsed time of a first use is 0.
BucketOf(key) == IF key \in DOMAIN buckets THEN buckets[key] ELSE burst
ElapsedOf(key) == IF key \in DOMAIN since_update THEN since_update[key] ELSE 0

\* min(self.burst, self.buckets[key] + elapsed * self.rate)
Refill(bucket, elapsed) == Min(burst, bucket + TokensFor(elapsed))

\* A wait that multiplies by the rate instead of dividing by it.
WaitTimeTimesRate(n, bucket) == (n - bucket) * rate * TicksPerSecond

\* wait_time = (tokens - self.buckets[bucket_key]) / self.rate, in ticks
WaitTime(n, bucket) == ((n - bucket) * TicksPerSecond) \div rate

\* A debit of one token whatever was asked for.
DebitOne(bucket, n) == bucket - 1

\* self.buckets[bucket_key] -= tokens
Debit(bucket, n) == bucket - n

Put(f, k, v) == [x \in DOMAIN f \cup {k} |-> IF x = k THEN v ELSE f[x]]

\* burst_run value of a key whose initial run of immediate unit requests ended
Broken == burst + 2

NextRun(key, n) ==
    IF n = 1 /\ burst_run[key] < burst + 1 THEN burst_run[key] + 1 ELSE Broken

\* The locals of a coroutine that is not inside acquire.
NoKey == "unknown"

\* RateLimiter.__init__
InitRateLimiter ==
    /\ buckets = <<>>
    /\ since_update = <<>>
    /\ rl_lock = NoTask
    /\ burst_run = [k \in BucketKeys |-> 0]

\* ConcurrencyLimiter.__init__
InitConcurrencyLimiter(n) ==
    /\ max_concurrent = n
    /\ semaphores = <<>>
    /\ sem_value = <<>>

\* Coroutines that have not started.
InitTasks(ids) ==
    /\ pc = [t \in ids |-> "idle"]
    /\ url = [t \in ids |-> "not a url"]
    /\ bucket_key = [t \in ids |-> NoKey]
    /\ tokens = [t \in ids |-> 1]
    /\ timer = [t \in ids |-> 0]
    /\ semaphore = [t \in ids |-> 0]

\* What collect_and_store has returned before its first call.
NoReturn == [kind |-> "none"]

\* An empty database, DeduplicationService.__init__ (lines 56-59), and
\* collect_and_store not yet called.
\* The classification calls of a session: none so far, or the method and
\* its news items.
NotCalled == [call |-> "none", items |-> <<>>]

Called(method, items) == [call |-> method, items |-> items]

\* Python's None.
None == "None"

\* A cache call that has not happened.
NoCall == [op |-> "none", key |-> None, value |-> None, evicted |-> None]

\* TTLCache.__init__ (lines 21-25); no function is wrapped.
InitCache ==
    /\ ttl_cache = <<>>
    /\ access_count = <<>>
    /\ cache_call = NoCall
    /\ cache_out = None
    /\ used = <<>>
    /\ func = <<>>
    /\ call_count = <<>>

\* Scheduler.__init__ (lines 53-54): no task, no job.
InitScheduler ==
    /\ tasks = <<>>
    /\ jobs = <<>>
    /\ sched_call = [op |-> "none"]
    /\ sched_out = None
    /\ executions = 0

\* EmbeddingService.__init__ over an empty cache directory.
InitEmbeddings ==
    /\ InitCache
    /\ InitScheduler
    /\ embed_files = <<>>
    /\ embed_call = NotCalled
    /\ embed_out = <<>>
    /\ invoked = <<>>

InitStore ==
    /\ InitEmbeddings
    /\ cs_pc = "idle"
    /\ all_items = <<>>
    /\ collected = <<>>
    /\ returned = NoReturn
    /\ news_items = {}
    /\ dedup_cache = {}
    /\ items_cache = <<>>
    /\ cache_loaded = FALSE
    /\ embedding_cache = {}
    /\ verdicts = <<>>
    /\ checked = NotCalled

\* No collector: the limiters are used on their own.
NoCollector ==
    /\ attempt = [t \in Tasks |-> 0]
    /\ result = [t \in Tasks |-> <<>>]
    /\ stats = <<>>
    /\ cycle = 0
    /\ requests = [t \in Tasks |-> 0]
    /\ failures = [t \in Tasks |-> 0]
    /\ stats_before = [t \in Tasks |-> <<>>]
    /\ status_only = TRUE
    /\ InitStore

InitRL ==
    /\ InitRateLimiter
    /\ InitConcurrencyLimiter(DefaultMaxConcurrent)
    /\ InitTasks(1..NumTasks)
    /\ NoCollector

\* A coroutine calls rate_limiter.acquire(url, n): line 53, then it queues
\* for self._lock.
RLCall(t, u, n) ==
    /\ pc[t] \in {"idle", "rl_done"}
    /\ pc' = [pc EXCEPT ![t] = "rl_lock"]
    /\ bucket_key' = [bucket_key EXCEPT ![t] = get_bucket_key(u)]
    /\ tokens' = [tokens EXCEPT ![t] = n]
    /\ UNCHANGED <<rlVars, clVars, url, timer, semaphore, fetchVars, storeVars, dbVars, serviceVars,
                   embedVars, cacheVars, schedVars>>

\* acquire, lines 55-72 and 84: the task takes the lock, refills the
\* bucket, and either debits and returns, or starts to sleep for wait_time
\* with the lock held.
RLEnter(t) ==
    /\ pc[t] = "rl_lock"
    /\ rl_lock = NoTask
    /\ LET key == bucket_key[t]
           refilled == Refill(BucketOf(key), ElapsedOf(key))
       IN  /\ since_update' = Put(since_update, key, 0)
           /\ burst_run' = [burst_run EXCEPT ![key] = NextRun(key, tokens[t])]
           /\ IF refilled < tokens[t]
              THEN /\ timer' = [timer EXCEPT ![t] = WaitTime(tokens[t], refilled)]
                   /\ buckets' = Put(buckets, key, refilled)
                   /\ rl_lock' = t
                   /\ pc' = [pc EXCEPT ![t] = "rl_sleep"]
                   /\ UNCHANGED <<bucket_key, tokens>>
              ELSE /\ buckets' = Put(buckets, key, Debit(refilled, tokens[t]))
                   /\ pc' = [pc EXCEPT ![t] = "rl_done"]
                   /\ bucket_key' = [bucket_key EXCEPT ![t] = NoKey]
                   /\ tokens' = [tokens EXCEPT ![t] = 1]
                   /\ UNCHANGED <<timer, rl_lock>>
    /\ UNCHANGED <<clVars, url, semaphore, fetchVars, storeVars, dbVars, serviceVars,
                   embedVars, cacheVars, schedVars>>

\* acquire, lines 74-84: the sleep is over; the task refills the bucket
\* again, debits it, releases the lock and returns.
RLWake(t) ==
    /\ pc[t] = "rl_sleep"
    /\ timer[t] = 0
    /\ LET key == bucket_key[t]
           refilled == Refill(BucketOf(key), ElapsedOf(key))
       IN  /\ since_update' = Put(since_update, key, 0)
           /\ buckets' = Put(buckets, key, Debit(refilled, tokens[t]))
    /\ rl_lock' = NoTask
    /\ pc' = [pc EXCEPT ![t] = "rl_done"]
    /\ bucket_key' = [bucket_key EXCEPT ![t] = NoKey]
    /\ tokens' = [tokens EXCEPT ![t] = 1]
    /\ UNCHANGED <<timer, burst_run, clVars, url, semaphore, fetchVars, storeVars, dbVars, serviceVars,
                   embedVars, cacheVars, schedVars>>

\* One tick of time passes: every pending sleep gets shorter and every
\* last_update gets older.  A last_update old enough for the refill to reach
\* burst is not aged further: the refill is min(burst, ...) and resets it.
Tick ==
    /\ timer' = [t \in Tasks |-> IF timer[t] > 0 THEN timer[t] - 1 ELSE 0]
    /\ since_update' = [k \in DOMAIN since_update |->
           IF BucketOf(k) + TokensFor(since_update[k]) >= burst
           THEN since_update[k] ELSE since_update[k] + 1]
    /\ burst_run' = [k \in BucketKeys |->
                         IF burst_run[k] > 0 THEN Broken ELSE burst_run[k]]
    /\ UNCHANGED <<buckets, rl_lock, pc, url, bucket_key, tokens, semaphore,
                   clVars, fetchVars, storeVars, dbVars, serviceVars,
                   embedVars, cacheVars, schedVars>>

NextRL ==
    \/ \E t \in Tasks, u \in Urls, n \in TokenAmounts : RLCall(t, u, n)
    \/ \E t \in Tasks : RLEnter(t)
    \/ \E t \in Tasks : RLWake(t)
    \/ Tick

SpecRL == InitRL /\ [][NextRL]_vars

\* ------------------------------------------------------ ConcurrencyLimiter

\* ConcurrencyLimiter._get_domain
get_domain(u) == IF netloc(u) # "" THEN netloc(u) ELSE "unknown"

Domains == {get_domain(u) : u \in Urls}

\* A limiter that makes a semaphore on every call.
AlwaysNewSemaphore(domain) == TRUE

\* `if domain not in self.semaphores`
NeedsSemaphore(domain) == domain \notin DOMAIN semaphores

\* ConcurrencyLimiter.acquire(url), lines 119-125.  self._lock is free
\* whenever a task reaches it, because no task suspends while it holds it:
\* the body runs without interruption.  A semaphore created here is a new
\* object (the next identity) holding max_concurrent permits.
ClAcquire(t) ==
    LET domain == get_domain(url[t])
        new == Len(sem_value) + 1
    IN  /\ IF NeedsSemaphore(domain)
           THEN /\ semaphores' = Put(semaphores, domain, new)
                /\ sem_value' = Append(sem_value, max_concurrent)
           ELSE UNCHANGED <<semaphores, sem_value>>
        /\ semaphore' = [semaphore EXCEPT ![t] = semaphores'[domain]]
        /\ pc' = [pc EXCEPT ![t] = "sem_wait"]
        /\ UNCHANGED max_concurrent

\* `async with semaphore:` entry: asyncio.Semaphore.acquire returns when a
\* permit is free and takes it.
SemAcquire(t) ==
    /\ pc[t] = "sem_wait"
    /\ sem_value[semaphore[t]] > 0
    /\ sem_value' = [sem_value EXCEPT ![semaphore[t]] = @ - 1]
    /\ pc' = [pc EXCEPT ![t] = "request"]
    /\ UNCHANGED <<max_concurrent, semaphores>>

\* An exit that keeps the permit.
SemNoRelease(values, sem) == values

\* `async with semaphore:` exit: asyncio.Semaphore.release
SemRelease(values, sem) == [values EXCEPT ![sem] = @ + 1]

\* --- the limiter on its own, used as the unit tests use it:
\*         sem = await limiter.acquire(url)
\*         async with sem: <the request>

CLCall(t, u) ==
    /\ pc[t] = "idle"
    /\ url' = [url EXCEPT ![t] = u]
    /\ pc' = [pc EXCEPT ![t] = "cl_call"]
    /\ UNCHANGED <<rlVars, clVars, bucket_key, tokens, timer, semaphore, fetchVars, storeVars, dbVars, serviceVars,
                   embedVars, cacheVars, schedVars>>

CLAcquire(t) ==
    /\ pc[t] = "cl_call"
    /\ ClAcquire(t)
    /\ UNCHANGED <<rlVars, url, bucket_key, tokens, timer, fetchVars, storeVars, dbVars, serviceVars,
                   embedVars, cacheVars, schedVars>>

CLEnter(t) ==
    /\ SemAcquire(t)
    /\ UNCHANGED <<rlVars, url, bucket_key, tokens, timer, semaphore, fetchVars, storeVars, dbVars, serviceVars,
                   embedVars, cacheVars, schedVars>>

\* The request is over and the coroutine returns (its locals are gone).
CLExit(t) ==
    /\ pc[t] = "request"
    /\ sem_value' = SemRelease(sem_value, semaphore[t])
    /\ pc' = [pc EXCEPT ![t] = "idle"]
    /\ semaphore' = [semaphore EXCEPT ![t] = 0]
    /\ url' = [url EXCEPT ![t] = "not a url"]
    /\ UNCHANGED <<rlVars, max_concurrent, semaphores, bucket_key, tokens,
                   timer, fetchVars, storeVars, dbVars, serviceVars,
                   embedVars, cacheVars, schedVars>>

InitCL ==
    /\ InitRateLimiter
    /\ InitConcurrencyLimiter(DefaultMaxConcurrent)
    /\ InitTasks(1..NumUsers)
    /\ NoCollector

NextCL ==
    \/ \E t \in Tasks, u \in Urls : CLCall(t, u)
    \/ \E t \in Tasks : CLAcquire(t)
    \/ \E t \in Tasks : CLEnter(t)
    \/ \E t \in Tasks : CLExit(t)

SpecCL == InitCL /\ [][NextCL]_vars

\* The event loop runs every task that can run; a request ends (it carries a
\* timeout); a semaphore admits its waiters in the order they arrived, so a
\* waiter is not passed over for ever.
FairCL ==
    /\ \A t \in 1..NumUsers : WF_vars(CLAcquire(t))
    /\ \A t \in 1..NumUsers : WF_vars(CLExit(t))
    /\ \A t \in 1..NumUsers : SF_vars(CLEnter(t))

SpecCLFair == SpecCL /\ FairCL

\* ----------------------------------------------------------- RSSCollector

\* settings.rss_feeds: two feeds of one domain
rss_feeds ==
    << [url |-> "https://example.com/feed1", name |-> "Feed 1"],
       [url |-> "https://example.com/feed2", name |-> "Feed 2"] >>

FeedNames == {rss_feeds[i].name : i \in DOMAIN rss_feeds}

\* settings.max_age_days
max_age_days == 7

\* The entries of a feed body as parser.parse reads them: link, title,
\* content and the age of the publication date in days (0: an hour ago).
Entry(u, title, content, age) ==
    [url |-> u, title |-> title, content |-> content, age |-> age]

EntryA == Entry("https://example.com/a", "bc", "x", 0)
EntryAOld == Entry("https://example.com/a", "bc", "x", max_age_days)
EntryB == Entry("https://example.com/b", "t", "y", 0)
EntryBOld == Entry("https://example.com/b", "t", "y", 30)
EntryAb == Entry("https://example.com/ab", "c", "z", 0)
EntryB2 == Entry("https://example.com/b2", "T", "y", 0)
EntryB3 == Entry("https://example.com/b3", "t", "y", 0)
EntryX2 == Entry("https://example.com/x2", "u", "x2", 0)
EntryX == Entry("https://example.com/x", "u", "x", 0)
EntryA10 == Entry("https://example.com/a", "bc", "x", 10)

\* The feed bodies the server answers with: no entry; an entry twice and an
\* old one; entries other feeds carry too.
Payloads ==
    { <<>>,
      <<EntryA, EntryBOld, EntryA>>,
      <<EntryB, EntryAOld, EntryAb>> }

\* NewsItem.generate_id: sha256(f"{url}{title}").hexdigest().  The digest
\* is taken to be free of collisions: it is modelled by the text it is
\* computed from.
sha256(text) == text
generate_id(u, title) == sha256(u \o title)

\* parser.parse: one NewsItem per entry, source = the feed's name, no id
\* given, so that the validator generates it.
NewsItem(entry, source) ==
    [id |-> generate_id(entry.url, entry.title), url |-> entry.url,
     title |-> entry.title, content |-> entry.content, age |-> entry.age,
     source |-> source]

parse(entries, source) == [i \in DOMAIN entries |-> NewsItem(entries[i], source)]

RECURSIVE Flatten(_)
Flatten(lists) ==
    IF lists = <<>> THEN <<>> ELSE Head(lists) \o Flatten(Tail(lists))

\* collect, lines 64-76: the items of the results in the order of the
\* results, an item kept when its id has not been seen before.
RECURSIVE FirstSeen(_, _)
FirstSeen(items, seen_ids) ==
    IF items = <<>> THEN <<>>
    ELSE IF Head(items).id \in seen_ids
         THEN FirstSeen(Tail(items), seen_ids)
         ELSE <<Head(items)>> \o
              FirstSeen(Tail(items), seen_ids \cup {Head(items).id})

\* A merge that keeps every item.
KeepAll(items) == items

Deduplicate(items) == FirstSeen(items, {})

\* An age filter that lets the cutoff itself through.
IsRecentOrAtCutoff(item) == item.age <= max_age_days

\* collect, lines 79-84: published_at > now - max_age_days
IsRecent(item) == item.age < max_age_days

\* collect, lines 63-91, for the results gather returned: results[i] is
\* the list task i returned; the tasks in exceptions raised instead, and
\* their results are skipped (lines 68-70).
AllItems(results, exceptions) ==
    LET returned_lists ==
            [i \in DOMAIN results |->
                 IF i \in exceptions THEN <<>> ELSE results[i]]
    IN  Deduplicate(Flatten(returned_lists))

\* A merge in which a source without items empties the batch.
FilteredItemsAllOrNothing(items) ==
    IF \E t \in DOMAIN result : result[t] = <<>> THEN <<>>
    ELSE SelectSeq(items, IsRecent)

\* lines 78-84
FilteredItems(items) == SelectSeq(items, IsRecent)

\* A collect that drops the old items before it deduplicates.
CollectResultsFilterFirst(results, exceptions) ==
    LET returned_lists ==
            [i \in DOMAIN results |->
                 IF i \in exceptions THEN <<>> ELSE results[i]]
    IN  Deduplicate(SelectSeq(Flatten(returned_lists), IsRecent))

CollectResults(results, exceptions) == FilteredItems(AllItems(results, exceptions))

\* How an attempt ends: status 200 and a parsed body ("ok"), another status
\* (ClientResponseError, a ClientError), TimeoutError, another ClientError,
\* or any other Exception (from the request or from parser.parse).
Outcomes == {"ok", "status", "timeout", "client_error", "error"}

\* The status codes a response carries.
Statuses == {200, 204, 404, 500}

\* A status check that lets every response through.
StatusUnchecked(status) == "ok"

\* A status check that lets every 2xx response through.
StatusOutcome2xx(status) == IF status \in 200..299 THEN "ok" ELSE "status"

\* Lines 126-131: any status other than 200 raises ClientResponseError.
StatusOutcome(status) == IF status # 200 THEN "status" ELSE "ok"

\* The exceptions an attempt can end with before or after the status check.
Exceptions == Outcomes \ {"ok", "status"}

\* The handlers of lines 157-165 without the last one.
CaughtNetworkOnly(outcome) == outcome \in {"status", "timeout", "client_error"}

\* except TimeoutError / except aiohttp.ClientError / except Exception
Caught(outcome) == outcome \in {"status", "timeout", "client_error", "error"}

RECURSIVE Pow2(_)
Pow2(n) == IF n = 0 THEN 1 ELSE 2 * Pow2(n - 1)

\* A delay that doubles once too often.
BackoffDelayLate(i) == retry_delay * Pow2(i + 1) * TicksPerSecond

\* delay = settings.retry_delay * (2**attempt), in ticks
BackoffDelay(i) == retry_delay * Pow2(i) * TicksPerSecond

\* CollectorStats(source=name); last_success and last_failure hold the number
\* of the cycle they were set in (0: None).  The two running averages
\* (average_items, average_response_time) are left out: they are written on
\* the success path only and nothing here reads them.
\* average_items is kept as the fraction it is: the items of all
\* successes, over success_count.
NewStats ==
    [success_count |-> 0, failure_count |-> 0, last_success |-> 0,
     last_failure |-> 0, average_items |-> [items |-> 0, successes |-> 0]]

\* A success that is stamped but not counted.
RecordSuccessUncounted(st, items) == [st EXCEPT !.last_success = cycle]

\* lines 141-142 and 146-148: average_items * (success_count - 1) is the
\* number of items so far.
RecordSuccess(st, items) ==
    [st EXCEPT !.success_count = @ + 1, !.last_success = cycle,
               !.average_items = [items |-> @.items + Len(items),
                                  successes |-> st.success_count + 1]]

\* Failure statistics that count every failed attempt.
RecordFailurePerAttempt(st) ==
    [st EXCEPT !.failure_count = @ + max_retries, !.last_failure = cycle]

\* lines 173-174
RecordFailure(st) ==
    [st EXCEPT !.failure_count = @ + 1, !.last_failure = cycle]

\* The rate limiter of a collector that has run before.  A cycle that is
\* cancelled (CancelCollect) takes tokens and leaves the statistics as they
\* were, so a collector with fresh statistics may hold any bucket that
\* acquires of one token leave behind.
UsedRateLimiter ==
    \E k \in {get_bucket_key(rss_feeds[i].url) : i \in DOMAIN rss_feeds} :
        \E b \in 0..(burst - 1) :
            /\ buckets = [x \in {k} |-> b]
            /\ since_update = [x \in {k} |-> 0]
            /\ rl_lock = NoTask
            /\ burst_run = [x \in BucketKeys |-> IF x = k THEN Broken ELSE 0]

\* RSSCollector.__init__, and settings: the coroutines are the _fetch_feed
\* calls of collect, one per feed.
InitFetch ==
    /\ InitRateLimiter \/ UsedRateLimiter
    /\ InitConcurrencyLimiter(CollectorMaxConcurrent)
    /\ InitTasks(DOMAIN rss_feeds)
    /\ attempt = [t \in Tasks |-> 0]
    /\ result = [t \in Tasks |-> <<>>]
    /\ stats = [n \in FeedNames |-> NewStats]
    /\ InitStore
    /\ cycle = 0
    /\ requests = [t \in Tasks |-> 0]
    /\ failures = [t \in Tasks |-> 0]
    /\ stats_before = [t \in Tasks |-> NewStats]
    /\ status_only = TRUE

\* collect, lines 51-61, and the start of every _fetch_feed, lines 105-120:
\* each coroutine runs up to rate_limiter.acquire(url) of attempt 0.
Collect ==
    /\ \A t \in Tasks : pc[t] = "idle"
    /\ cycle < MaxCycles
    /\ all_items' = <<>>
    /\ collected' = <<>>
    /\ cycle' = cycle + 1
    /\ pc' = [t \in Tasks |-> "rl_lock"]
    /\ url' = [t \in Tasks |-> rss_feeds[t].url]
    /\ bucket_key' = [t \in Tasks |-> get_bucket_key(rss_feeds[t].url)]
    /\ tokens' = [t \in Tasks |-> 1]
    /\ attempt' = [t \in Tasks |-> 0]
    /\ result' = [t \in Tasks |-> <<>>]
    /\ requests' = [t \in Tasks |-> 0]
    /\ failures' = [t \in Tasks |-> 0]
    /\ stats_before' = [t \in Tasks |-> stats[rss_feeds[t].name]]
    /\ status_only' = TRUE
    /\ UNCHANGED <<rlVars, clVars, timer, semaphore, stats, cs_pc, returned,
                   dbVars, serviceVars,
                   embedVars, cacheVars, schedVars>>

\* _fetch_feed, line 123
FetchSlot(t) ==
    /\ pc[t] = "rl_done"
    /\ ClAcquire(t)
    /\ UNCHANGED <<rlVars, url, bucket_key, tokens, timer, fetchVars, storeVars, dbVars, serviceVars,
                   embedVars, cacheVars, schedVars>>

\* _fetch_feed, lines 124-125: the permit is taken and the request sent.
FetchSend(t) ==
    /\ SemAcquire(t)
    /\ requests' = [requests EXCEPT ![t] = @ + 1]
    /\ UNCHANGED <<rlVars, url, bucket_key, tokens, timer, semaphore,
                   attempt, result, stats, cycle, failures, stats_before,
                   status_only, storeVars, dbVars, serviceVars,
                   embedVars, cacheVars, schedVars>>

\* _fetch_feed, lines 125-178: the attempt ends.  Leaving `async with
\* semaphore` gives the permit back whatever happened inside.  Status 200
\* and a parsed body: the statistics are updated and the items returned.
\* A caught exception: backoff sleep, or after the last attempt the failure
\* statistics and an empty list.
FetchResponse(t, outcome, items) ==
    /\ pc[t] = "request"
    /\ sem_value' = SemRelease(sem_value, semaphore[t])
    /\ LET name == rss_feeds[t].name
       IN  CASE outcome = "ok" ->
                   /\ stats' = [stats EXCEPT ![name] = RecordSuccess(@, parse(items, name))]
                   /\ result' = [result EXCEPT ![t] = parse(items, name)]
                   /\ pc' = [pc EXCEPT ![t] = "success"]
                   /\ UNCHANGED <<timer, failures>>
             [] outcome # "ok" /\ Caught(outcome) /\ attempt[t] < max_retries - 1 ->
                   /\ timer' = [timer EXCEPT ![t] = BackoffDelay(attempt[t])]
                   /\ pc' = [pc EXCEPT ![t] = "backoff"]
                   /\ failures' = [failures EXCEPT ![t] = @ + 1]
                   /\ UNCHANGED <<stats, result>>
             [] outcome # "ok" /\ Caught(outcome) /\ attempt[t] >= max_retries - 1 ->
                   /\ stats' = [stats EXCEPT ![name] = RecordFailure(@)]
                   /\ result' = [result EXCEPT ![t] = <<>>]
                   /\ pc' = [pc EXCEPT ![t] = "failed"]
                   /\ failures' = [failures EXCEPT ![t] = @ + 1]
                   /\ UNCHANGED timer
             [] OTHER ->
                   \* an exception no handler catches leaves _fetch_feed
                   /\ pc' = [pc EXCEPT ![t] = "raised"]
                   /\ failures' = [failures EXCEPT ![t] = @ + 1]
                   /\ UNCHANGED <<stats, result, timer>>
    /\ UNCHANGED <<rlVars, max_concurrent, semaphores, url, bucket_key, tokens,
                   semaphore, attempt, cycle, requests, stats_before,
                   storeVars, dbVars, serviceVars,
                   embedVars, cacheVars, schedVars>>

\* The attempt gets a response with the given status and, when the status
\* lets it through, a body that parses into items.
FetchStatus(t, status, items) ==
    /\ FetchResponse(t, StatusOutcome(status), items)
    /\ UNCHANGED status_only

\* The attempt ends with an exception other than that of the status check.
FetchException(t, exception) ==
    /\ FetchResponse(t, exception, <<>>)
    /\ status_only' = FALSE

\* _fetch_feed, line 170 to 120: the backoff sleep is over and the next
\* attempt begins with rate_limiter.acquire(url).
FetchRetry(t) ==
    /\ pc[t] = "backoff"
    /\ timer[t] = 0
    /\ attempt' = [attempt EXCEPT ![t] = @ + 1]
    /\ bucket_key' = [bucket_key EXCEPT ![t] = get_bucket_key(url[t])]
    /\ tokens' = [tokens EXCEPT ![t] = 1]
    /\ pc' = [pc EXCEPT ![t] = "rl_lock"]
    /\ UNCHANGED <<rlVars, clVars, url, timer, semaphore,
                   result, stats, cycle, requests, failures, stats_before,
                   status_only, storeVars, dbVars, serviceVars,
                   embedVars, cacheVars, schedVars>>

Ended(t) == pc[t] \in {"success", "failed", "cancelled", "raised"}

RECURSIVE ReleaseAll(_, _)
ReleaseAll(values, ts) ==
    IF ts = {} THEN values
    ELSE LET t == CHOOSE x \in ts : TRUE
         IN  ReleaseAll(SemRelease(values, semaphore[t]), ts \ {t})

\* collect is cancelled while it awaits gather (line 61): every _fetch_feed
\* still running gets CancelledError at its await, which no handler of
\* _fetch_feed catches; `async with` gives back the lock and the permits.
CancelCollect ==
    /\ \E t \in Tasks : pc[t] # "idle" /\ ~Ended(t)
    /\ pc' = [t \in Tasks |-> IF Ended(t) THEN pc[t] ELSE "cancelled"]
    /\ rl_lock' = NoTask
    /\ sem_value' = ReleaseAll(sem_value, {t \in Tasks : pc[t] = "request"})
    /\ timer' = [t \in Tasks |-> 0]
    /\ bucket_key' = [t \in Tasks |-> NoKey]
    /\ tokens' = [t \in Tasks |-> 1]
    /\ UNCHANGED <<buckets, since_update, burst_run, max_concurrent, semaphores,
                   url, semaphore, fetchVars, storeVars, dbVars, serviceVars,
                   embedVars, cacheVars, schedVars>>

\* A collect_and_store that treats an empty collection as an error.
RaisesForNoItems == [kind |-> "raised"]

\* What collect_and_store returns when nothing was collected (line 50).
NothingCollected ==
    [kind |-> "returned", novel_items |-> <<>>,
     stats |-> [total |-> 0, new |-> 0, duplicates |-> 0]]

\* collect_and_store raised instead of returning.
Raised == [kind |-> "raised"]

\* gather has every result (line 61): collect merges them and returns
\* (lines 63-91); a cancelled collect raises CancelledError.  When it was
\* collect_and_store that called collect, it goes on to line 53, or
\* returns at line 50 when there is no item.
CollectEnd ==
    /\ IF Tasks = {} THEN cs_pc = "collect" ELSE cs_pc \in {"idle", "collect"}
    /\ \A t \in Tasks : Ended(t)
    /\ pc' = [t \in Tasks |-> "idle"]
    /\ LET cancelled == \E t \in Tasks : pc[t] = "cancelled"
           collected_items ==
               IF cancelled THEN <<>>
               ELSE CollectResults(result, {t \in Tasks : pc[t] = "raised"})
       IN  /\ collected' = collected_items
           /\ all_items' = IF cancelled THEN <<>>
                           ELSE AllItems(result, {t \in Tasks : pc[t] = "raised"})
           /\ IF cs_pc = "idle" THEN UNCHANGED <<cs_pc, returned>>
              ELSE IF cancelled
              THEN cs_pc' = "idle" /\ returned' = Raised
              ELSE IF collected_items = <<>>
              THEN cs_pc' = "idle" /\ returned' = NothingCollected
              ELSE cs_pc' = "store" /\ UNCHANGED returned
    /\ UNCHANGED <<rlVars, clVars, url, bucket_key, tokens, timer, semaphore,
                   fetchVars, dbVars, serviceVars,
                   embedVars, cacheVars, schedVars>>

\* --------------------------------------------------- DeduplicationService

\* settings.content_similarity_threshold (percent), the lookback of the
\* recency window (days), its size limit, the largest gap between the
\* publication dates of two semantic duplicates (7 * 24 * 3600 s, in days),
\* and the length of the content prefix that is hashed and embedded.
similarity_threshold == 90
lookback_days == 30
RecentLimit == 1000
MaxDaysApart == 7
ContentPrefix == 500

\* str.lower(), on the letters the model's texts use
LowerChar(c) ==
    CASE c = "B" -> "b"
      [] c = "C" -> "c"
      [] c = "T" -> "t"
      [] OTHER -> c

RECURSIVE lower(_)
lower(text) ==
    IF Len(text) = 0 THEN ""
    ELSE LowerChar(SubSeq(text, 1, 1)) \o lower(SubSeq(text, 2, Len(text)))

\* content[:500]
Prefix(text) == SubSeq(text, 1, Min(Len(text), ContentPrefix))

\* DeduplicationRepository._hash_text
hash_text(text) == sha256(text)

\* DeduplicationRepository.add_to_cache, lines 547-549 and 565-570: the row
\* of an item.
CacheRow(item) ==
    [url_hash |-> hash_text(item.url),
     title_hash |-> hash_text(lower(item.title)),
     content_hash |-> hash_text(lower(Prefix(item.content))),
     news_item_id |-> item.id]

\* DeduplicationRepository.add_to_cache on the rows of a session: a row
\* with the url_hash exists (its counters are updated), or the row is added.
AddToDedupCache(rows, item) ==
    IF \E r \in rows : r.url_hash = hash_text(item.url)
    THEN rows
    ELSE rows \cup {CacheRow(item)}

\* EmbeddingService.combine_text_for_similarity: title, truncated content
\* and the domain of the url.
combine_text_for_similarity(title, content, u) ==
    [title |-> title,
     content |-> IF Len(content) > ContentPrefix
                 THEN Prefix(content) \o "..." ELSE content,
     domain |-> netloc(u)]

ItemText(item) == combine_text_for_similarity(item.title, item.content, item.url)

\* The embedder and find_most_similar's score (lines 225-227), in percent:
\* the vectors of equal texts coincide, texts with the same content are
\* close, texts of paraphrased content ("x" and "x2") closer than the
\* threshold, all others far apart.
Similarity(text1, text2) ==
    CASE text1 = text2 -> 100
      [] text1 # text2 /\ text1.content = text2.content -> 95
      [] text1.content # text2.content
            /\ {text1.content, text2.content} = {"x", "x2"} -> 92
      [] OTHER -> 50

\* DuplicateMatch; None is "None", scores are percent
DuplicateMatch(is_duplicate, original_id, similarity_score, match_type) ==
    [is_duplicate |-> is_duplicate, original_id |-> original_id,
     similarity_score |-> similarity_score, match_type |-> match_type]

NoMatch == DuplicateMatch(FALSE, "None", 0, "none")

\* An exception that leaves the call.
Raises(exception) == [exception |-> exception]

\* A lookup by url that finds nothing.
UrlNeverFound(u) == {}

\* NewsItemRepository.get_by_url: the rows with the url (url is unique)
get_by_url(u) == {row \in news_items : row.url = u}

\* DeduplicationRepository.find_similar, lines 589-604: the rows the query
\* selects
find_similar(u, title, content) ==
    {r \in dedup_cache :
        \/ r.url_hash = hash_text(u)
        \/ /\ r.title_hash = hash_text(lower(title))
           /\ r.content_hash = hash_text(lower(Prefix(content)))}

\* The vector the embedder computes for a text, and the vectors
\* encode_batch returns for a list of texts.
Embed(text) == [embedding_of |-> text]

EmbedAll(texts) == [i \in DOMAIN texts |-> Embed(texts[i])]

\* The embedding kept with an item of the window (lines 84-93).
WindowEmbedding(window, i) == Embed(ItemText(window[i]))

\* find_most_similar (embeddings.py, lines 218-233) against a window: the
\* indices at or above the threshold; the best of them is the first of the
\* highest score (the sort is stable).
Score(embedding, window, i) ==
    Similarity(embedding.embedding_of, WindowEmbedding(window, i).embedding_of)

Similar(embedding, window) ==
    {i \in DOMAIN window : Score(embedding, window, i) >= similarity_threshold}

\* A choice of the best match that takes the first item at or above the
\* threshold.
FirstSimilar(embedding, window) ==
    CHOOSE i \in Similar(embedding, window) :
        \A j \in Similar(embedding, window) : i <= j

Best(embedding, window) ==
    CHOOSE i \in Similar(embedding, window) :
        \A j \in Similar(embedding, window) :
            \/ Score(embedding, window, j) < Score(embedding, window, i)
            \/ Score(embedding, window, j) = Score(embedding, window, i) /\ i <= j

Abs(n) == IF n < 0 THEN -n ELSE n

\* A semantic stage that answers for every text.
AlwaysSimilar(item, embedding, window) ==
    IF window = <<>> THEN DuplicateMatch(TRUE, item.id, 100, "similar_content")
    ELSE DuplicateMatch(TRUE, window[1].id, Score(embedding, window, 1),
                        "similar_content")

\* The semantic stage, service.py lines 146-191 and 250-276, for an item
\* and its embedding.
SemanticStage(item, embedding, window) ==
    IF window = <<>> \/ Similar(embedding, window) = {} THEN NoMatch
    ELSE LET best_idx == Best(embedding, window)
             best_item == window[best_idx]
         IN  IF Abs(item.age - best_item.age) > MaxDaysApart
             THEN NoMatch
             ELSE DuplicateMatch(TRUE, best_item.id,
                                 Score(embedding, window, best_idx),
                                 "similar_content")

\* check_duplicate encodes the text of the item itself (lines 148-151).
SemanticMatch(item, window) ==
    SemanticStage(item, Embed(ItemText(item)), window)

\* DeduplicationService._check_exact_matches, lines 302-317
check_exact_matches(item) ==
    IF get_by_url(item.url) # {}
    THEN DuplicateMatch(TRUE, (CHOOSE row \in get_by_url(item.url) : TRUE).id,
                        100, "exact_url")
    ELSE NoMatch

\* DeduplicationService.check_duplicate, lines 120-198, with the window
\* as loaded; scalar_one_or_none (repositories.py line 605) raises when the
\* query selects more than one row.
check_duplicate(item, window) ==
    IF get_by_url(item.url) # {}
    THEN DuplicateMatch(TRUE, (CHOOSE row \in get_by_url(item.url) : TRUE).id,
                        100, "exact_url")
    ELSE LET similar_cached == find_similar(item.url, item.title, item.content)
         IN  IF Cardinality(similar_cached) > 1
             THEN Raises("MultipleResultsFound")
             ELSE IF similar_cached # {}
             THEN DuplicateMatch(TRUE,
                      (CHOOSE r \in similar_cached : TRUE).news_item_id,
                      100, "exact_title")
             ELSE SemanticMatch(item, window)

\* DeduplicationService.check_batch, lines 241-285, for one item of the
\* batch and its embedding
check_batch_item(item, embedding, window) ==
    IF check_exact_matches(item).is_duplicate
    THEN check_exact_matches(item)
    ELSE SemanticStage(item, embedding, window)

\* A loop that leaves the exact duplicates out of its answer.
RECURSIVE check_batch_loop_skipping(_, _, _, _, _)
check_batch_loop_skipping(items, embeddings, window, i, results) ==
    IF i > Min(Len(items), Len(embeddings)) THEN results
    ELSE check_batch_loop_skipping(items, embeddings, window, i + 1,
             IF check_exact_matches(items[i]).is_duplicate THEN results
             ELSE Append(results,
                         check_batch_item(items[i], embeddings[i], window)))

\* The loop of lines 242-285 over zip(news_items, new_embeddings): one
\* result is appended per pair.
RECURSIVE check_batch_loop(_, _, _, _, _)
check_batch_loop(items, embeddings, window, i, results) ==
    IF i > Min(Len(items), Len(embeddings)) THEN results
    ELSE check_batch_loop(items, embeddings, window, i + 1,
             Append(results, check_batch_item(items[i], embeddings[i], window)))

\* DeduplicationService.check_batch, lines 229-287
check_batch(items, window) ==
    check_batch_loop(items,
                     EmbedAll([i \in DOMAIN items |-> ItemText(items[i])]),
                     window, 1, <<>>)

\* The sequences that hold each element of a set once.
Orders(S) ==
    {order \in [1..Cardinality(S) -> S] : \A x \in S : \E i \in DOMAIN order : order[i] = x}

\* NewsItemRepository.get_recent(days, limit): the rows not older than the
\* cutoff, newest first, at most limit of them.  The order of rows of equal
\* date is the database's choice.
get_recent(days, limit) ==
    LET recent == {row \in news_items : row.age <= days}
    IN  {SubSeq(order, 1, Min(Len(order), limit)) :
            order \in {o \in Orders(recent) :
                          \A i, j \in DOMAIN o : i < j => o[i].age <= o[j].age}}

\* load_recent_items_cache without the test of _cache_loaded (lines 63-64)
LoadedWindowsAlways == get_recent(lookback_days, RecentLimit)

\* DeduplicationService.load_recent_items_cache, lines 63-101: the window
\* after the call
LoadedWindows ==
    IF cache_loaded THEN {items_cache} ELSE get_recent(lookback_days, RecentLimit)

\* self._embedding_cache after the call (lines 63-64 and 96-97)
LoadedEmbeddings(window) ==
    IF cache_loaded THEN embedding_cache
    ELSE embedding_cache \cup {window[i].id : i \in DOMAIN window}

\* ------------------------------------------------ RSSCollectorWithStorage

\* What goes wrong while an accepted item is processed (lines 81-87):
\* nothing, a database error at a flush, or an error of the embedder in
\* dedup_service.add_to_cache.
Faults == {"none", "db", "embed"}

\* The fault assignments of a batch: at most one item meets a fault.
FaultChoices(items) ==
    {f \in [DOMAIN items -> Faults] :
        \A i, j \in DOMAIN items : (f[i] # "none" /\ f[j] # "none") => i = j}

\* lines 92-93
AppendNew(list, x) ==
    IF \E i \in DOMAIN list : list[i] = x THEN list ELSE Append(list, x)

\* The session and the locals of collect_and_store before the loop of line
\* 69: rows and cache are the tables as the session sees them, broken says
\* that a flush failed (the session refuses further statements until it is
\* rolled back).
LoopStart(window) ==
    [rows |-> news_items, cache |-> dedup_cache,
     embedded |-> LoadedEmbeddings(window),
     new_items |-> <<>>, duplicate_count |-> 0, failed_sources |-> <<>>,
     broken |-> FALSE]

\* One turn of the loop, lines 69-93.  news_repo.create fails at its flush
\* when the session is broken, the database fails, or a row with the url
\* or the id exists (UniqueConstraint uq_news_item_url, primary key).
ProcessItem(st, item, verdict, fault) ==
    IF verdict.is_duplicate
    THEN [st EXCEPT !.duplicate_count = @ + 1]
    ELSE IF \/ st.broken
            \/ fault = "db"
            \/ \E row \in st.rows : row.url = item.url \/ row.id = item.id
    THEN [st EXCEPT !.broken = TRUE,
                    !.failed_sources = AppendNew(@, item.source)]
    ELSE IF fault = "embed"
    THEN [st EXCEPT !.rows = @ \cup {item},
                    !.cache = AddToDedupCache(@, item),
                    !.failed_sources = AppendNew(@, item.source)]
    ELSE [st EXCEPT !.rows = @ \cup {item},
                    !.cache = AddToDedupCache(@, item),
                    !.embedded = @ \cup {item.id},
                    !.new_items = Append(@, item)]

RECURSIVE ProcessItems(_, _, _, _, _)
ProcessItems(st, items, results, faults, i) ==
    IF i > Len(items) THEN st
    ELSE ProcessItems(ProcessItem(st, items[i], results[i], faults[i]),
                      items, results, faults, i + 1)

\* The value of line 131 (run_id, a key of the database, is left out).
BatchStats(items, st) ==
    [kind |-> "returned", novel_items |-> st.new_items,
     stats |-> [total |-> Len(items), new |-> Len(st.new_items),
                duplicates |-> st.duplicate_count,
                failed_sources |-> st.failed_sources]]

\* collect_and_store, lines 53-137, for the items collect returned: the
\* window is loaded when it was not, the batch is classified, every
\* accepted item is stored and cached.  With a broken session the
\* statements of lines 98 and 113 raise: get_session rolls back and the
\* exception leaves collect_and_store; else the session is committed.
Store(items, faults, window) ==
    LET results == check_batch(items, window)
        st == ProcessItems(LoopStart(window), items, results, faults, 1)
    IN  /\ items_cache' = window
        /\ cache_loaded' = TRUE
        /\ verdicts' = results
        /\ checked' = Called("check_batch", items)
        /\ embedding_cache' = st.embedded
        /\ IF st.broken
           THEN /\ returned' = Raised
                /\ UNCHANGED dbVars
           ELSE /\ returned' = BatchStats(items, st)
                /\ news_items' = st.rows
                /\ dedup_cache' = st.cache

StoreCollected ==
    /\ cs_pc = "store"
    /\ \E faults \in FaultChoices(collected), window \in LoadedWindows :
           Store(collected, faults, window)
    /\ cs_pc' = "idle"
    /\ UNCHANGED <<rlVars, clVars, taskVars, fetchVars, all_items, collected,
                   embedVars, cacheVars, schedVars>>

\* RSSCollectorWithStorage.__init__ and settings: settings.rss_feeds is the
\* list above, or empty (no source configured).
InitStorage ==
    /\ InitRateLimiter
    /\ InitConcurrencyLimiter(CollectorMaxConcurrent)
    /\ InitTasks(DOMAIN rss_feeds) \/ InitTasks({})
    /\ attempt = [t \in Tasks |-> 0]
    /\ result = [t \in Tasks |-> <<>>]
    /\ stats = [n \in {rss_feeds[t].name : t \in Tasks} |-> NewStats]
    /\ cycle = 0
    /\ requests = [t \in Tasks |-> 0]
    /\ failures = [t \in Tasks |-> 0]
    /\ stats_before = [t \in Tasks |-> NewStats]
    /\ status_only = TRUE
    /\ InitStore

\* collect_and_store is called (lines 43-46) and collect starts the
\* _fetch_feed coroutines (rss.py, lines 51-61).
CollectAndStore ==
    /\ cs_pc = "idle"
    /\ \A t \in Tasks : pc[t] = "idle"
    /\ cycle < MaxRuns
    /\ cycle' = cycle + 1
    /\ cs_pc' = "collect"
    /\ pc' = [t \in Tasks |-> "fetching"]
    /\ result' = [t \in Tasks |-> <<>>]
    /\ all_items' = <<>>
    /\ collected' = <<>>
    /\ returned' = NoReturn
    /\ verdicts' = <<>>
    /\ checked' = NotCalled
    /\ stats_before' = [t \in Tasks |-> stats[rss_feeds[t].name]]
    /\ UNCHANGED <<rlVars, clVars, url, bucket_key, tokens, timer, semaphore,
                   attempt, stats, requests, failures, status_only,
                   dbVars, items_cache, cache_loaded, embedding_cache,
                   embedVars, cacheVars, schedVars>>

\* _fetch_feed as a whole (rss.py, lines 105-178): the source ends with a
\* parsed body and the success statistics (lines 137-155), or after
\* max_retries failed attempts with the failure statistics and no item
\* (lines 172-178).
FetchFeed(t, succeeds, items) ==
    /\ pc[t] = "fetching"
    /\ LET name == rss_feeds[t].name
       IN  IF succeeds
           THEN /\ stats' = [stats EXCEPT ![name] = RecordSuccess(@, parse(items, name))]
                /\ result' = [result EXCEPT ![t] = parse(items, name)]
                /\ pc' = [pc EXCEPT ![t] = "success"]
           ELSE /\ stats' = [stats EXCEPT ![name] = RecordFailure(@)]
                /\ result' = [result EXCEPT ![t] = <<>>]
                /\ pc' = [pc EXCEPT ![t] = "failed"]
    /\ UNCHANGED <<rlVars, clVars, url, bucket_key, tokens, timer, semaphore,
                   attempt, cycle, requests, failures, stats_before, status_only,
                   storeVars, dbVars, serviceVars,
                   embedVars, cacheVars, schedVars>>

\* The bodies the feeds serve over the runs: those above, and a syndicated
\* copy of an article (another url).
Bodies == Payloads \cup {<<EntryB3>>}

\* The items a caller hands to the service.
Candidates ==
    {NewsItem(e, rss_feeds[1].name) :
        e \in {EntryA, EntryB, EntryBOld, EntryB2, EntryB3, EntryX2, EntryX}}

\* DeduplicationService.check_duplicate, lines 103-198
CheckDuplicate(item) ==
    /\ cs_pc = "idle"
    /\ \E window \in LoadedWindows :
           /\ items_cache' = window
           /\ cache_loaded' = TRUE
           /\ embedding_cache' = LoadedEmbeddings(window)
           /\ verdicts' = <<check_duplicate(item, window)>>
           /\ checked' = Called("check_duplicate", <<item>>)
    /\ UNCHANGED <<rlVars, clVars, taskVars, fetchVars, storeVars, dbVars,
                   embedVars, cacheVars, schedVars>>

\* DeduplicationService.check_batch, lines 217-287
CheckBatch(items) ==
    /\ cs_pc = "idle"
    /\ \E window \in LoadedWindows :
           /\ items_cache' = window
           /\ cache_loaded' = TRUE
           /\ embedding_cache' = LoadedEmbeddings(window)
           /\ verdicts' = check_batch(items, window)
           /\ checked' = Called("check_batch", items)
    /\ UNCHANGED <<rlVars, clVars, taskVars, fetchVars, storeVars, dbVars,
                   embedVars, cacheVars, schedVars>>

\* The batches a caller hands to check_batch: pairs of candidates, and an
\* item with a stored url, a paraphrase of it and an unrelated item in
\* every order.
Mixed == {NewsItem(e, rss_feeds[1].name) : e \in {EntryA, EntryX2, EntryB}}

Batches == {<<c1, c2>> : c1 \in Candidates, c2 \in Mixed} \cup Orders(Mixed)

NextStorage ==
    \/ CollectAndStore
    \/ \E t \in Tasks, items \in Bodies : FetchFeed(t, TRUE, items)
    \/ \E t \in Tasks : FetchFeed(t, FALSE, <<>>)
    \/ CollectEnd
    \/ StoreCollected

SpecStorage == InitStorage /\ [][NextStorage]_vars

\* DeduplicationService.add_to_cache, lines 200-215
AddToCache(item) ==
    /\ cs_pc = "idle"
    /\ embedding_cache' = embedding_cache \cup {item.id}
    /\ UNCHANGED <<rlVars, clVars, taskVars, fetchVars, storeVars, dbVars,
                   items_cache, cache_loaded, verdicts, checked,
                   embedVars, cacheVars, schedVars>>

\* DeduplicationService.clear_memory_cache, lines 319-324
ClearMemoryCache ==
    /\ cs_pc = "idle"
    /\ embedding_cache' = {}
    /\ items_cache' = <<>>
    /\ cache_loaded' = FALSE
    /\ UNCHANGED <<rlVars, clVars, taskVars, fetchVars, storeVars, dbVars,
                   verdicts, checked,
                   embedVars, cacheVars, schedVars>>

\* A row stored longer ago than the lookback of the service (line 53).
Stale ==
    NewsItem(Entry("https://example.com/old", "o", "old", lookback_days + 1),
             rss_feeds[2].name)

\* The items earlier sessions have stored, and the stores they leave: urls
\* and ids are unique, every stored item has its row in the hash cache.
StoredItems ==
    {NewsItem(e, rss_feeds[2].name) :
        e \in {EntryA, EntryA10, EntryB, EntryB3, EntryX2}}
        \cup {Stale}

Stores ==
    {store \in SUBSET StoredItems :
        /\ Cardinality(store) <= MaxStored
        /\ \A a, b \in store : (a.url = b.url \/ a.id = b.id) => a = b}

\* The items a session accepts and adds to its cache.
Accepted == {NewsItem(EntryB3, rss_feeds[1].name)}

\* A DeduplicationService (lines 35-59) over a store.
InitDedup ==
    /\ InitRateLimiter
    /\ InitConcurrencyLimiter(CollectorMaxConcurrent)
    /\ InitTasks({})
    /\ attempt = <<>>
    /\ result = <<>>
    /\ stats = <<>>
    /\ cycle = 0
    /\ requests = <<>>
    /\ failures = <<>>
    /\ stats_before = <<>>
    /\ status_only = TRUE
    /\ InitEmbeddings
    /\ cs_pc = "idle"
    /\ all_items = <<>>
    /\ collected = <<>>
    /\ returned = NoReturn
    /\ news_items \in Stores
    /\ dedup_cache = {CacheRow(item) : item \in news_items}
    /\ items_cache = <<>>
    /\ cache_loaded = FALSE
    /\ embedding_cache = {}
    /\ verdicts = <<>>
    /\ checked = NotCalled

NextDedup ==
    \/ \E item \in Candidates : CheckDuplicate(item)
    \/ \E items \in Batches : CheckBatch(items)
    \/ \E item \in Accepted : AddToCache(item)
    \/ ClearMemoryCache

SpecDedup == InitDedup /\ [][NextDedup]_vars

NextFetch ==
    \/ Collect
    \/ \E t \in Tasks : RLEnter(t)
    \/ \E t \in Tasks : RLWake(t)
    \/ \E t \in Tasks : FetchSlot(t)
    \/ \E t \in Tasks : FetchSend(t)
    \/ \E t \in Tasks, s \in Statuses :
           \E items \in (IF StatusOutcome(s) = "ok" THEN Payloads ELSE {<<>>}) :
               FetchStatus(t, s, items)
    \/ \E t \in Tasks, e \in Exceptions : FetchException(t, e)
    \/ \E t \in Tasks : FetchRetry(t)
    \/ CancelCollect
    \/ CollectEnd
    \/ Tick

SpecFetch == InitFetch /\ [][NextFetch]_vars

\* The steps of a cycle that is under way: what the event loop, the clock
\* and the network do, as opposed to the caller (Collect, CancelCollect).
\* A request ends with status 200 and a body or with TimeoutError; the
\* other statuses and exceptions take the branch of TimeoutError in
\* _fetch_feed (lines 157-170), and what the body holds has no part in how
\* the attempt ends.
CycleStep ==
    \/ Tick
    \/ CollectEnd
    \/ \E t \in DOMAIN rss_feeds :
           \/ RLEnter(t) \/ RLWake(t) \/ FetchSlot(t) \/ FetchSend(t)
           \/ FetchRetry(t)
           \/ FetchStatus(t, 200, <<EntryA>>)
           \/ FetchException(t, "timeout")

\* The event loop does not stop while a coroutine can run, time passes,
\* and a request ends, with a response or an exception (it carries the
\* request timeout).  Nothing obliges a caller to begin a cycle or to
\* cancel one, and no order among the coroutines is assumed.
FairFetch == WF_vars(CycleStep)

NextFetchFair ==
    \/ Collect
    \/ \E t \in Tasks : RLEnter(t)
    \/ \E t \in Tasks : RLWake(t)
    \/ \E t \in Tasks : FetchSlot(t)
    \/ \E t \in Tasks : FetchSend(t)
    \/ \E t \in Tasks : FetchStatus(t, 200, <<EntryA>>)
    \/ \E t \in Tasks : FetchException(t, "timeout")
    \/ \E t \in Tasks : FetchRetry(t)
    \/ CancelCollect
    \/ CollectEnd
    \/ Tick

SpecFetchFair == InitFetch /\ [][NextFetchFair]_vars /\ FairFetch

\* ------------------------------------------------------- EmbeddingService

\* self.model_name (line 30)
model_name == "all-MiniLM-L6-v2"

\* The texts a caller encodes, and the lists it hands to encode_batch.
Texts == {"p", "q"}

RECURSIVE ListsOf(_, _)
ListsOf(S, n) ==
    IF n = 0 THEN {<<>>}
    ELSE ListsOf(S, n - 1)
            \cup {Append(list, x) : list \in ListsOf(S, n - 1), x \in S}

TextLists == ListsOf(Texts, MaxBatch)

\* EmbeddingService._get_cache_key, lines 60-61
get_cache_key(text) == sha256(model_name \o ":" \o text)

\* The content of a cache file that np.load cannot read.
Unreadable == [unreadable |-> TRUE]

\* A lookup that never finds an entry.
LoadAlwaysMisses(files, cache_key) ==
    [hit |-> FALSE, value |-> <<>>, files |-> files]

\* A lookup that hands out whatever the file holds.
LoadUnchecked(files, cache_key) ==
    IF cache_key \in DOMAIN files
    THEN [hit |-> TRUE, value |-> files[cache_key], files |-> files]
    ELSE [hit |-> FALSE, value |-> <<>>, files |-> files]

\* EmbeddingService._load_from_cache, lines 69-79: the array of the file;
\* None when there is no file, or when the file cannot be read, which is
\* then removed.
load_from_cache(files, cache_key) ==
    IF cache_key \notin DOMAIN files
    THEN [hit |-> FALSE, value |-> <<>>, files |-> files]
    ELSE IF files[cache_key] = Unreadable
    THEN [hit |-> FALSE, value |-> <<>>,
          files |-> [k \in DOMAIN files \ {cache_key} |-> files[k]]]
    ELSE [hit |-> TRUE, value |-> files[cache_key], files |-> files]

\* EmbeddingService._save_to_cache, lines 81-88
save_to_cache(files, cache_key, embedding) ==
    [k \in DOMAIN files \cup {cache_key} |->
        IF k = cache_key THEN embedding ELSE files[k]]

\* EmbeddingService.encode, lines 100-112: what it returns, the files it
\* leaves and the calls of the embedder it makes.
encode(files, text) ==
    LET cached == load_from_cache(files, get_cache_key(text))
    IN  IF cached.hit
        THEN [out |-> cached.value, files |-> cached.files, invoked |-> <<>>]
        ELSE [out |-> Embed(text),
              files |-> save_to_cache(cached.files, get_cache_key(text), Embed(text)),
              invoked |-> << <<text>> >>]

\* The loop of lines 132-141: the cached embeddings with their indices,
\* the texts to encode and their indices.
RECURSIVE CheckCache(_, _, _)
CheckCache(st, texts, i) ==
    IF i > Len(texts) THEN st
    ELSE LET cached == load_from_cache(st.files, get_cache_key(texts[i]))
         IN  CheckCache(
                 IF cached.hit
                 THEN [st EXCEPT !.files = cached.files,
                                 !.embeddings = Append(@, <<i, cached.value>>)]
                 ELSE [st EXCEPT !.files = cached.files,
                                 !.texts_to_encode = Append(@, texts[i]),
                                 !.text_indices = Append(@, i)],
                 texts, i + 1)

\* lines 149-153
RECURSIVE SaveAll(_, _, _, _)
SaveAll(files, texts, embeddings, i) ==
    IF i > Min(Len(texts), Len(embeddings)) THEN files
    ELSE SaveAll(save_to_cache(files, get_cache_key(texts[i]), embeddings[i]),
                 texts, embeddings, i + 1)

\* A result that is left in the order in which it was put together.
Unsorted(pairs) == [k \in DOMAIN pairs |-> pairs[k][2]]

\* lines 160-161: the embeddings in the order of their indices (no index
\* occurs twice).
SortByIndex(pairs) ==
    [k \in DOMAIN pairs |->
        LET p == CHOOSE q \in DOMAIN pairs :
                     Cardinality({r \in DOMAIN pairs : pairs[r][1] < pairs[q][1]}) = k - 1
        IN  pairs[p][2]]

\* EmbeddingService.encode_batch, lines 124-161
encode_batch(files, texts) ==
    IF texts = <<>> THEN [out |-> <<>>, files |-> files, invoked |-> <<>>]
    ELSE LET st == CheckCache([files |-> files, embeddings |-> <<>>,
                               texts_to_encode |-> <<>>, text_indices |-> <<>>],
                              texts, 1)
             new_embeddings == EmbedAll(st.texts_to_encode)
             pairs == st.embeddings
                        \o [k \in 1..Min(Len(st.text_indices), Len(new_embeddings))
                              |-> <<st.text_indices[k], new_embeddings[k]>>]
         IN  IF st.texts_to_encode = <<>>
             THEN [out |-> SortByIndex(st.embeddings), files |-> st.files,
                   invoked |-> <<>>]
             ELSE [out |-> SortByIndex(pairs),
                   files |-> SaveAll(st.files, st.texts_to_encode, new_embeddings, 1),
                   invoked |-> <<st.texts_to_encode>>]

\* What the DeduplicationService, the collector and the limiters are in
\* does not change while the embedding service is used on its own.
OnlyEmbeddings ==
    UNCHANGED <<rlVars, clVars, taskVars, fetchVars, storeVars, dbVars,
                serviceVars, cacheVars, schedVars>>

Encode(text) ==
    /\ embed_call' = Called("encode", <<text>>)
    /\ embed_out' = encode(embed_files, text).out
    /\ embed_files' = encode(embed_files, text).files
    /\ invoked' = encode(embed_files, text).invoked
    /\ OnlyEmbeddings

EncodeBatch(texts) ==
    /\ embed_call' = Called("encode_batch", texts)
    /\ embed_out' = encode_batch(embed_files, texts).out
    /\ embed_files' = encode_batch(embed_files, texts).files
    /\ invoked' = encode_batch(embed_files, texts).invoked
    /\ OnlyEmbeddings

\* A cache file is damaged (a write that was cut short, a failing disk).
DamageFile(cache_key) ==
    /\ cache_key \in DOMAIN embed_files
    /\ embed_files[cache_key] # Unreadable
    /\ embed_files' = [embed_files EXCEPT ![cache_key] = Unreadable]
    /\ UNCHANGED <<embed_call, embed_out, invoked>>
    /\ OnlyEmbeddings

\* EmbeddingService.clear_cache, lines 247-256
ClearCache ==
    /\ embed_files' = <<>>
    /\ UNCHANGED <<embed_call, embed_out, invoked>>
    /\ OnlyEmbeddings

InitEmbed ==
    /\ InitRateLimiter
    /\ InitConcurrencyLimiter(CollectorMaxConcurrent)
    /\ InitTasks({})
    /\ attempt = <<>>
    /\ result = <<>>
    /\ stats = <<>>
    /\ cycle = 0
    /\ requests = <<>>
    /\ failures = <<>>
    /\ stats_before = <<>>
    /\ status_only = TRUE
    /\ InitStore

NextEmbed ==
    \/ \E text \in Texts : Encode(text)
    \/ \E texts \in TextLists : EncodeBatch(texts)
    \/ \E text \in Texts : DamageFile(get_cache_key(text))
    \/ ClearCache

SpecEmbed == InitEmbed /\ [][NextEmbed]_vars

\* ------------------------------------------------- claims: RateLimiter

\* A task leaves the lock queue of acquire in this step.
Enters(t) == pc[t] = "rl_lock" /\ pc'[t] # "rl_lock"

\* BucketOf in the state a step leads to.
BucketAfter(key) == IF key \in DOMAIN buckets' THEN buckets'[key] ELSE burst

\* A task returns from acquire in this step.
Returns(t) == pc[t] \in {"rl_lock", "rl_sleep"} /\ pc'[t] = "rl_done"

\* C1: after every operation every bucket holds between 0 and burst tokens.
BucketBound ==
    \A k \in DOMAIN buckets : 0 <= buckets[k] /\ buckets[k] <= burst

\* C2: acquire(key, n) returns without sleeping when the bucket holds at
\* least n tokens after the lazy refill, and otherwise sleeps for
\* (n - tokens) / rate before it debits; on a fresh key the first burst
\* immediate unit acquires do not sleep and the next one sleeps 1 / rate.
AcquireWaits ==
    [][\A t \in Tasks : Enters(t) =>
          LET key == bucket_key[t]
              have == Min(burst, BucketOf(key) + (ElapsedOf(key) * rate) \div TicksPerSecond)
          IN  /\ have >= tokens[t] =>
                    /\ pc'[t] = "rl_done"
                    /\ timer'[t] = 0
                    /\ buckets'[key] = have - tokens[t]
              /\ have < tokens[t] =>
                    /\ pc'[t] = "rl_sleep"
                    /\ timer'[t] * rate = (tokens[t] - have) * TicksPerSecond
                    /\ buckets'[key] = have
              /\ burst_run'[key] \in 1..burst => pc'[t] = "rl_done"
              /\ burst_run'[key] = burst + 1 =>
                    /\ pc'[t] = "rl_sleep"
                    /\ timer'[t] * rate = TicksPerSecond
      ]_vars

\* C2 witness: the (burst+1)-th immediate unit acquire on a key is asleep
\* for 1/rate seconds, the bucket empty and not yet debited.
SixthAcquireSleeps ==
    \E t \in Tasks :
        /\ pc[t] = "rl_sleep"
        /\ burst_run[bucket_key[t]] = burst + 1
        /\ timer[t] * rate = TicksPerSecond
        /\ buckets[bucket_key[t]] = 0

\* C3: an acquire on one key debits exactly the requested tokens from that
\* key's bucket (as refilled) and changes no other key's token count; a key
\* never used before holds the full burst.
KeysIndependent ==
    [][/\ \A t \in Tasks : Enters(t) \/ Returns(t) =>
             LET key == bucket_key[t]
             IN  /\ \A k \in BucketKeys \ {key} : BucketAfter(k) = BucketOf(k)
                 /\ Returns(t) =>
                       BucketAfter(key) =
                           Min(burst, BucketOf(key) + TokensFor(ElapsedOf(key)))
                               - tokens[t]
                 /\ (Enters(t) /\ key \notin DOMAIN buckets /\ tokens[t] <= burst) =>
                       /\ pc'[t] = "rl_done"
                       /\ buckets'[key] = burst - tokens[t]
       /\ (\A t \in Tasks : ~Enters(t) /\ ~Returns(t)) =>
             \A k \in BucketKeys : BucketAfter(k) = BucketOf(k)
      ]_vars

\* C3 witness: one key has been debited while another key, already in use,
\* holds a different count, and a third bucket has never been touched.
TwoKeysDiffer ==
    /\ "example.com" \in DOMAIN buckets
    /\ "unknown" \in DOMAIN buckets
    /\ buckets["example.com"] = 3
    /\ buckets["unknown"] = 4

\* C4: while an acquire on key A sleeps for A's bucket to refill, an acquire
\* on another key B whose bucket holds enough tokens is not kept waiting.
NoStarvationAcrossKeys ==
    \A a, b \in Tasks :
        ( /\ pc[a] = "rl_sleep"
          /\ pc[b] = "rl_lock"
          /\ bucket_key[a] # bucket_key[b]
          /\ Refill(BucketOf(bucket_key[b]), ElapsedOf(bucket_key[b])) >= tokens[b] )
        => ENABLED RLEnter(b)

\* ------------------------------------------ claims: ConcurrencyLimiter

\* The tasks inside `async with semaphore` for a domain.
Holders(domain) ==
    {t \in Tasks : pc[t] = "request" /\ get_domain(url[t]) = domain}

\* C5: every acquire for a key returns the one semaphore of that key, which
\* is created once, so at most max_concurrent tasks hold the key's slot.
OneSemaphorePerKey ==
    /\ \A t \in Tasks : pc[t] \in {"sem_wait", "request"} =>
           /\ get_domain(url[t]) \in DOMAIN semaphores
           /\ semaphore[t] = semaphores[get_domain(url[t])]
    /\ Len(sem_value) = Cardinality(DOMAIN semaphores)
    /\ \A d \in Domains : Cardinality(Holders(d)) <= max_concurrent

\* C5 witness: a key is at its cap while a second key has its own semaphore.
CapReached ==
    /\ Len(sem_value) = 2
    /\ \E d \in Domains : Cardinality(Holders(d)) = max_concurrent

\* C6: a request that waits at a full key is admitted in the end, and a
\* request is never kept waiting while its own key has a free slot,
\* whatever the other keys hold.
EventuallyAdmitted ==
    /\ \A t \in 1..NumUsers : (pc[t] = "sem_wait") ~> (pc[t] = "request")
    /\ [](\A t \in Tasks :
            (pc[t] = "sem_wait"
                /\ Cardinality(Holders(get_domain(url[t]))) < max_concurrent)
            => ENABLED CLEnter(t))

\* C6 witness: a request waits because its key has max_concurrent holders.
WaiterAtCap ==
    \E t \in Tasks :
        /\ pc[t] = "sem_wait"
        /\ Cardinality(Holders(get_domain(url[t]))) = max_concurrent
        /\ sem_value[semaphore[t]] = 0

\* ------------------------------------------------ claims: RSSCollector

\* C7: every attempt gives its permit back however it ends, so the free
\* permits of a key are max_concurrent less the requests in flight, and all
\* of them are free when none is.
PermitsReturned ==
    \A d \in DOMAIN semaphores :
        /\ sem_value[semaphores[d]] = max_concurrent - Cardinality(Holders(d))
        /\ Holders(d) = {} => sem_value[semaphores[d]] = max_concurrent

\* C7 witness: after a cycle in which one source failed for good and a
\* cycle was cancelled with a request in flight, all permits are free.
FreeAfterFailures ==
    /\ \E t \in Tasks : pc[t] = "failed"
    /\ \E t \in Tasks : pc[t] = "cancelled" /\ requests[t] > 0
    /\ \A d \in DOMAIN semaphores : sem_value[semaphores[d]] = max_concurrent
    /\ semaphores # <<>>

\* The state of the orchestrator's state machine a task is in.
Phase(p) ==
    CASE p = "idle" -> "Idle"
      [] p \in {"rl_lock", "rl_sleep", "rl_done", "sem_wait", "request"} -> "Attempting"
      [] p = "backoff" -> "Backoff"
      [] p = "success" -> "Success"
      [] p = "failed" -> "Failed"
      [] p = "cancelled" -> "Cancelled"
      [] OTHER -> "Raised"

PhaseSteps ==
    { <<"Idle", "Attempting">>,
      <<"Attempting", "Success">>, <<"Attempting", "Backoff">>,
      <<"Attempting", "Failed">>, <<"Backoff", "Attempting">>,
      <<"Attempting", "Cancelled">>, <<"Backoff", "Cancelled">>,
      <<"Success", "Idle">>, <<"Failed", "Idle">>, <<"Cancelled", "Idle">> }

\* C8: a source goes Idle -> Attempting -> {Success | Backoff -> Attempting
\* | Failed}; it makes at most max_retries attempts and none after a
\* success; after max_retries failed attempts it is Failed with an empty
\* item list, and no exception leaves _fetch_feed (cancellation apart).
RetryStateMachine ==
    /\ [][\A t \in Tasks :
             /\ Phase(pc[t]) # Phase(pc'[t]) =>
                    <<Phase(pc[t]), Phase(pc'[t])>> \in PhaseSteps
             /\ (pc[t] = "success" /\ pc'[t] = "success") =>
                    requests'[t] = requests[t]
         ]_vars
    /\ [](\A t \in Tasks :
             /\ pc[t] # "raised"
             /\ requests[t] <= max_retries
             /\ failures[t] <= max_retries
             /\ pc[t] = "failed" <=>
                    (failures[t] = max_retries /\ pc[t] \notin {"idle", "cancelled"})
             /\ pc[t] = "failed" => requests[t] = max_retries /\ result[t] = <<>>
             /\ pc[t] = "success" => failures[t] = requests[t] - 1)

\* C8 witness: a source is Failed after max_retries attempts.
SourceFailed ==
    \E t \in Tasks :
        /\ pc[t] = "failed"
        /\ requests[t] = max_retries
        /\ result[t] = <<>>
        /\ \E u \in Tasks : pc[u] = "success" /\ result[u] # <<>>

\* C9: a cycle whose first k-1 attempts fail and whose k-th succeeds makes
\* exactly k attempts, adds 1 to success_count and leaves failure_count.
RetryAccounting ==
    \A t \in Tasks : pc[t] = "success" =>
        /\ requests[t] = failures[t] + 1
        /\ requests[t] = attempt[t] + 1
        /\ requests[t] <= max_retries
        /\ stats[rss_feeds[t].name].success_count = stats_before[t].success_count + 1
        /\ stats[rss_feeds[t].name].failure_count = stats_before[t].failure_count

\* C9 witness: fail, fail, succeed: 3 attempts, 1 success, 0 failures.
ThirdAttemptSucceeds ==
    \E t \in Tasks :
        /\ pc[t] = "success"
        /\ failures[t] = 2
        /\ requests[t] = 3
        /\ stats[rss_feeds[t].name].success_count = 1
        /\ stats[rss_feeds[t].name].failure_count = 0

\* C10: the attempts of a source follow one another; after failed attempt
\* i the source sleeps retry_delay * 2^i before attempt i+1, and it does not
\* sleep after its last attempt.
BackoffSchedule ==
    [][\A t \in Tasks :
          /\ (pc[t] = "request" /\ pc'[t] = "backoff") =>
                 /\ attempt[t] < max_retries - 1
                 /\ timer'[t] = retry_delay * Pow2(attempt[t]) * TicksPerSecond
          /\ (pc[t] = "request" /\ pc'[t] # "request"
                  /\ attempt[t] = max_retries - 1) =>
                 /\ pc'[t] \in {"success", "failed", "cancelled"}
                 /\ timer'[t] = 0
          /\ (attempt'[t] # attempt[t] /\ pc[t] # "idle") =>
                 /\ attempt'[t] = attempt[t] + 1
                 /\ pc[t] = "backoff" /\ timer[t] = 0
                 /\ pc'[t] = "rl_lock"
          /\ requests'[t] > requests[t] =>
                 /\ requests'[t] = requests[t] + 1
                 /\ requests[t] = attempt[t]
      ]_vars

\* C10 witness: after its second failed attempt a source sleeps 2 seconds.
SecondBackoff ==
    \E t \in Tasks :
        /\ pc[t] = "backoff"
        /\ attempt[t] = 1
        /\ timer[t] = 2 * retry_delay * TicksPerSecond

\* C11: an attempt answered with a non-2xx status ends exactly as one that
\* timed out or met a transport error: it counts as one failed attempt, is
\* followed by the backoff sleep and a retry, and the source is Failed only
\* with the max_retries-th such attempt; no status ends the loop early.
StatusRetried ==
    [][\A t \in Tasks, s \in Statuses \ (200..299), items \in Payloads :
          FetchStatus(t, s, items) =>
              /\ FetchResponse(t, "timeout", <<>>)
              /\ FetchResponse(t, "client_error", <<>>)
              /\ failures'[t] = failures[t] + 1
              /\ requests[t] = attempt[t] + 1
              /\ attempt[t] < max_retries - 1 =>
                     /\ pc'[t] = "backoff"
                     /\ timer'[t] = BackoffDelay(attempt[t])
                     /\ UNCHANGED <<stats, result>>
              /\ attempt[t] = max_retries - 1 => pc'[t] = "failed"
              /\ pc'[t] = "failed" <=> failures'[t] = max_retries
              /\ pc'[t] \in {"backoff", "failed"}
      ]_vars

\* C11 witness: a source is Failed after max_retries attempts that were all
\* answered with a status other than 200.
FailedByStatus ==
    \E t \in Tasks :
        /\ pc[t] = "failed"
        /\ status_only
        /\ failures[t] = max_retries
        /\ requests[t] = max_retries

\* collect returns in this step: gather had every result and none of the
\* coroutines was cancelled.
CollectReturns ==
    /\ Tasks # {}
    /\ \A t \in Tasks : pc[t] \in {"success", "failed", "raised"}
    /\ \A t \in Tasks : pc'[t] = "idle"

\* The items of a list.
Range(list) == {list[i] : i \in DOMAIN list}

\* C12: a failing source never aborts the batch: whichever sources fail,
\* collect returns, a failing source contributes no item, and every item of
\* a succeeding source is returned (the copy first seen of its id, when
\* that copy is recent enough).
FailureIsolated ==
    [][CollectReturns =>
          /\ \A t \in Tasks : pc[t] = "failed" =>
                 /\ result[t] = <<>>
                 /\ \A item \in Range(collected') : item.source # rss_feeds[t].name
          /\ \A item \in Range(collected') :
                 \E t \in Tasks : pc[t] = "success" /\ item \in Range(result[t])
          /\ \A t \in Tasks : pc[t] = "success" =>
                 \A item \in Range(result[t]) :
                     /\ \E kept \in Range(all_items') : kept.id = item.id
                     /\ (\A u \in Tasks : \A other \in Range(result[u]) :
                             other.id = item.id => IsRecent(other))
                            => \E kept \in Range(collected') : kept.id = item.id
      ]_vars

\* C12 witness: collect has returned the items of the one source that
\* succeeded in a cycle in which the other exhausted its retries.
OneFailedOneCollected ==
    /\ \A t \in Tasks : pc[t] = "idle"
    /\ \E t, u \in Tasks :
           /\ failures[t] = max_retries
           /\ stats[rss_feeds[t].name].last_failure = cycle
           /\ result[u] # <<>>
           /\ collected # <<>>
           /\ \A i \in DOMAIN collected : collected[i].source = rss_feeds[u].name

\* The elements of a list at the given indices, in the order of the list.
RECURSIVE Pick(_, _, _)
Pick(list, indices, i) ==
    IF i > Len(list) THEN <<>>
    ELSE (IF i \in indices THEN <<list[i]>> ELSE <<>>) \o Pick(list, indices, i + 1)

\* The items fetched in a cycle: source by source in the configured order,
\* each source's items in the order of its feed.
Fetched == Flatten(result)

\* C14: of the fetched items that share an id exactly one survives the
\* deduplication of the batch, the first in source order and then feed
\* order, whichever source completed first; the survivors keep that order.
FirstSeenSurvives ==
    [][CollectReturns =>
          LET first == {i \in DOMAIN Fetched :
                           \A j \in 1..(i - 1) : Fetched[j].id # Fetched[i].id}
          IN  /\ all_items' = Pick(Fetched, first, 1)
              /\ \A i, j \in DOMAIN all_items' :
                     all_items'[i].id = all_items'[j].id => i = j
              /\ \A item \in Range(Fetched) :
                     \E kept \in Range(all_items') : kept.id = item.id
      ]_vars

\* C14 witness: both sources carried the same id, the source configured
\* first needed three attempts and the other one, and the copy kept is the
\* first source's; an id that occurs twice in one feed is kept once.
FirstSourceCopyKept ==
    /\ \A t \in Tasks : pc[t] = "idle"
    /\ requests = <<max_retries, 1>>
    /\ \E i \in DOMAIN result[1], j \in DOMAIN result[2] :
           /\ result[1][i].id = result[2][j].id
           /\ result[1][i] \in Range(all_items)
           /\ result[2][j] \notin Range(all_items)
    /\ \E i, j \in DOMAIN result[1] : i # j /\ result[1][i] = result[1][j]
    /\ Len(all_items) = 2

\* C15: collect returns exactly the deduplicated items published later
\* than now - max_age_days, in their order: an item 30 days old is left
\* out, an item an hour old is kept.
AgeFilter ==
    [][CollectReturns =>
          /\ \A item \in Range(collected') :
                 item.age < max_age_days /\ item \in Range(all_items')
          /\ \A item \in Range(all_items') :
                 item.age < max_age_days => item \in Range(collected')
          /\ collected' =
                 Pick(all_items',
                      {i \in DOMAIN all_items' : all_items'[i].age < max_age_days}, 1)
      ]_vars

\* C15 witness: of the deduplicated items one is an hour old and one 30
\* days; the first is returned and the second is not.
OldItemDropped ==
    /\ \A t \in Tasks : pc[t] = "idle"
    /\ \E old, fresh \in Range(all_items) :
           /\ old.age = 30 /\ old \notin Range(collected)
           /\ fresh.age = 0 /\ fresh \in Range(collected)

\* C16: the id of an item is a function of its url and title, and two items
\* with the same id have the same url and the same title.
IdDeterminesUrlAndTitle ==
    \A t, u \in Tasks : \A a \in Range(result[t]), b \in Range(result[u]) :
        /\ a.id = generate_id(a.url, a.title)
        /\ a.id = b.id => (a.url = b.url /\ a.title = b.title)

\* ------------------------------------- claims: RSSCollectorWithStorage

\* The source of task t went through all its retries in the present run
\* of collect_and_store, and the source of task t delivered items.
Exhausted(t) ==
    stats[rss_feeds[t].name].failure_count = stats_before[t].failure_count + 1

Delivered(t) ==
    /\ stats[rss_feeds[t].name].success_count = stats_before[t].success_count + 1
    /\ result[t] # <<>>

\* The names batch_stats.failed_sources lists (the early return of line 50
\* has no such entry).
FailedSources(ret) ==
    IF "failed_sources" \in DOMAIN ret.stats
    THEN Range(ret.stats.failed_sources) ELSE {}

\* C13: when collect_and_store has processed a batch in a run in which one
\* source exhausted its retries and another delivered items, novel_items
\* holds items of the delivering source only and failed_sources names the
\* exhausted source.
FailedSourceListed ==
    \A t, u \in Tasks :
        (/\ returned.kind = "returned"
         /\ "failed_sources" \in DOMAIN returned.stats
         /\ Exhausted(t)
         /\ Delivered(u))
        => /\ \A i \in DOMAIN returned.novel_items :
                  returned.novel_items[i].source = rss_feeds[u].name
           /\ rss_feeds[t].name \in FailedSources(returned)

\* The batch in which no item meets a fault.
NoFault(items) == [i \in DOMAIN items |-> "none"]

Windows ==
    {<<>>, items_cache} \cup get_recent(lookback_days, RecentLimit)
        \cup {<<c>> : c \in Candidates}
        \cup {<<c1, c2>> : c1, c2 \in StoredItems}

\* C18: a candidate whose url is that of a stored item is classified as a
\* duplicate of that item with score 1.0 and reason exact_url, by
\* check_duplicate and by check_batch, whatever the recency window holds.
ExactUrlMatch ==
    \A item \in Candidates, row \in news_items, window \in Windows :
        row.url = item.url
        => /\ check_duplicate(item, window)
                 = DuplicateMatch(TRUE, row.id, 100, "exact_url")
           /\ check_batch(<<item>>, window)
                 = <<DuplicateMatch(TRUE, row.id, 100, "exact_url")>>

\* A classification has answered exact_url with the id of a stored item.
ExactUrlVerdict ==
    \E i \in DOMAIN verdicts :
        /\ "match_type" \in DOMAIN verdicts[i]
        /\ verdicts[i].match_type = "exact_url"
        /\ \E row \in news_items : row.id = verdicts[i].original_id

\* The hash cache holds the hashes of the item's lowercased title and of
\* the first ContentPrefix characters of its lowercased content.
HashCached(item) ==
    \E r \in dedup_cache :
        /\ r.title_hash = hash_text(lower(item.title))
        /\ r.content_hash = hash_text(lower(Prefix(item.content)))

\* C19: a candidate whose url is not in the store and whose title and
\* content hashes are in the hash cache is classified by check_duplicate
\* as a duplicate with score 1.0 and reason exact_title, whatever the
\* recency window holds (the semantic stage is not consulted).
ExactTitleMatch ==
    \A item \in Candidates, window \in Windows :
        (get_by_url(item.url) = {} /\ HashCached(item))
        => LET verdict == check_duplicate(item, window)
           IN  /\ "match_type" \in DOMAIN verdict
               /\ verdict.is_duplicate
               /\ verdict.similarity_score = 100
               /\ verdict.match_type = "exact_title"

\* C20: for every batch, check_batch answers for each of its items what
\* check_duplicate answers for that item, against the same store, hash
\* cache and recency window.
BatchEqualsSingle ==
    \A items \in Batches, window \in LoadedWindows :
        \A i \in DOMAIN items :
            check_batch(items, window)[i] = check_duplicate(items[i], window)

\* C21: check_batch returns one verdict per item of the batch, and the
\* verdict at index i is the one the item at index i gets when it is
\* classified alone against the same store and window.
BatchOrderPreserved ==
    (checked.call = "check_batch" /\ cache_loaded)
    => /\ Len(verdicts) = Len(checked.items)
       /\ \A i \in DOMAIN checked.items :
              verdicts[i] = check_batch(<<checked.items[i]>>, items_cache)[1]

\* A batch of three got a non-duplicate, a semantic and an exact verdict.
MixedBatchVerdicts ==
    /\ checked.call = "check_batch"
    /\ Len(verdicts) = 3
    /\ verdicts[1].match_type = "none"
    /\ verdicts[2].match_type = "similar_content"
    /\ verdicts[3].match_type = "exact_url"

\* The item at index i of the last classification call matches no exact
\* stage: its url is not stored and the hash cache has no row for it.
NoExactMatch(i) ==
    /\ get_by_url(checked.items[i].url) = {}
    /\ find_similar(checked.items[i].url, checked.items[i].title,
                    checked.items[i].content) = {}

\* The similarity of that item to the item at index j of the window.
WindowScore(i, j) ==
    Similarity(ItemText(checked.items[i]), ItemText(items_cache[j]))

\* C22: an item that matches no exact stage, classified against an empty
\* window or a window all of whose items score below similarity_threshold,
\* gets is_duplicate = false, no original id, score 0.0 and reason none.
NoMatchBelowThreshold ==
    (checked.call # "none" /\ cache_loaded)
    => \A i \in DOMAIN checked.items :
           (/\ NoExactMatch(i)
            /\ \A j \in DOMAIN items_cache : WindowScore(i, j) < similarity_threshold)
           => verdicts[i] = [is_duplicate |-> FALSE, original_id |-> "None",
                             similarity_score |-> 0, match_type |-> "none"]

\* check_duplicate has answered none for an item that scores 0.5 against
\* every item of a window that is not empty.
BelowThresholdVerdict ==
    /\ checked.call = "check_duplicate"
    /\ cache_loaded
    /\ items_cache # <<>>
    /\ NoExactMatch(1)
    /\ \A j \in DOMAIN items_cache : WindowScore(1, j) = 50
    /\ verdicts[1].match_type = "none"

\* The item at index j of the window is the one that scores highest for
\* the item at index i of the call (the first of them, if there are more).
Highest(i, j) ==
    /\ WindowScore(i, j) >= similarity_threshold
    /\ \A k \in DOMAIN items_cache :
           \/ WindowScore(i, k) < WindowScore(i, j)
           \/ WindowScore(i, k) = WindowScore(i, j) /\ j <= k

\* C23: when the semantic stage is reached, the highest-scoring window
\* item at or above the threshold decides alone: published more than
\* MaxDaysApart days from the candidate, the verdict is not a duplicate,
\* reason none; else it is a duplicate of that item with that score.
BestMatchDecides ==
    (checked.call # "none" /\ cache_loaded)
    => \A i \in DOMAIN checked.items, j \in DOMAIN items_cache :
           (NoExactMatch(i) /\ Highest(i, j))
           => IF Abs(checked.items[i].age - items_cache[j].age) > MaxDaysApart
              THEN verdicts[i] = [is_duplicate |-> FALSE, original_id |-> "None",
                                  similarity_score |-> 0, match_type |-> "none"]
              ELSE verdicts[i] = [is_duplicate |-> TRUE,
                                  original_id |-> items_cache[j].id,
                                  similarity_score |-> WindowScore(i, j),
                                  match_type |-> "similar_content"]

\* An item was answered none because its best match (0.95) is ten days
\* away, although the window has a second match within the seven days.
TooOldBestMatch ==
    /\ checked.call # "none"
    /\ cache_loaded
    /\ \E i \in DOMAIN checked.items, j, k \in DOMAIN items_cache :
           /\ NoExactMatch(i)
           /\ Highest(i, j)
           /\ WindowScore(i, j) = 95
           /\ Abs(checked.items[i].age - items_cache[j].age) = 10
           /\ k # j
           /\ WindowScore(i, k) >= similarity_threshold
           /\ Abs(checked.items[i].age - items_cache[k].age) <= MaxDaysApart
           /\ verdicts[i].match_type = "none"

\* The stored items the session has added to its cache with add_to_cache.
AddedInSession ==
    {row \in news_items :
        /\ row.id \in embedding_cache
        /\ \A j \in DOMAIN items_cache : items_cache[j].id # row.id}

\* C24: once an accepted item has been added with add_to_cache, a later
\* candidate of the session with another url, the same embedding and a
\* publication date within MaxDaysApart days is classified by check_batch
\* as a semantic duplicate of that item.
WindowGrows ==
    (cs_pc = "idle" /\ cache_loaded)
    => \A row \in AddedInSession, item \in Candidates :
           (/\ get_by_url(item.url) = {}
            /\ Embed(ItemText(item)) = Embed(ItemText(row))
            /\ Abs(item.age - row.age) <= MaxDaysApart)
           => LET verdict == check_batch(<<item>>, items_cache)[1]
              IN  /\ verdict.is_duplicate
                  /\ verdict.match_type = "similar_content"

\* C25: the session cache of the deduplication service holds only items
\* whose insert has been committed to the store.
CacheOnlyCommitted ==
    cs_pc = "idle"
    => \A id \in embedding_cache : \E row \in news_items : row.id = id

\* The items of a batch that are not classified as duplicates, without the
\* one item that meets the fault.
RECURSIVE Accepts(_, _, _, _)
Accepts(items, results, faults, i) ==
    IF i > Len(items) THEN <<>>
    ELSE IF results[i].is_duplicate \/ faults[i] # "none"
    THEN Accepts(items, results, faults, i + 1)
    ELSE <<items[i]>> \o Accepts(items, results, faults, i + 1)

\* C29: when persisting one item of the batch raises, collect_and_store
\* returns normally: failed_sources holds the source of that item once,
\* and novel_items holds every other item that is not a duplicate.
BadItemSkipped ==
    [][\A faults \in FaultChoices(collected), window \in LoadedWindows :
          (/\ cs_pc = "store"
           /\ \E i \in DOMAIN collected :
                  faults[i] = "db" /\ ~ check_batch(collected, window)[i].is_duplicate
           /\ Store(collected, faults, window))
          => /\ returned'.kind = "returned"
             /\ returned'.novel_items
                    = Accepts(collected, check_batch(collected, window), faults, 1)
             /\ \E i \in DOMAIN collected :
                    /\ faults[i] = "db"
                    /\ returned'.stats.failed_sources = <<collected[i].source>>
      ]_vars

\* ------------------------------------------ claims: source statistics

\* The cycles a source has completed according to its statistics.
Completed(st) == st.success_count + st.failure_count

\* The task ends its cycle in this step, in Success or in Failed.
Completes(t) ==
    pc[t] \notin {"success", "failed"} /\ pc'[t] \in {"success", "failed"}

Cached(files, text) ==
    /\ get_cache_key(text) \in DOMAIN files
    /\ files[get_cache_key(text)] # Unreadable

Uncached(files, texts) ==
    SelectSeq(texts, LAMBDA text : ~ Cached(files, text))

MaxSize == 2
MaxHits == 1

\* The ttl the cache is built with, in seconds (the fixture of the tests).
ttl == 1

\* TTLCache.__init__'s default max_size, the one @cached's cache gets.
DefaultMaxSize == 1000

\* The keys and values callers use: more keys than the cache holds.
CacheKeys == {"key1", "key2", "key3"}
CacheValues == {"v", "w"}

\* Positions of key in the dict (at most one).
Slots(cache, key) == {i \in DOMAIN cache : cache[i].key = key}

Has(cache, key) == Slots(cache, key) # {}

Slot(cache, key) == CHOOSE i \in Slots(cache, key) : TRUE

\* del d[key]: the other entries keep their order.
RECURSIVE Del(_, _)
Del(seq, key) ==
    IF seq = <<>> THEN <<>>
    ELSE IF Head(seq).key = key THEN Del(Tail(seq), key)
    ELSE <<Head(seq)>> \o Del(Tail(seq), key)

\* d[key] = entry: an old key keeps its place, a new one goes last.
Assign(cache, entry) ==
    IF Has(cache, entry.key)
    THEN [cache EXCEPT ![Slot(cache, entry.key)] = entry]
    ELSE Append(cache, entry)

\* self._access_count.get(k, 0)
Count(counts, key) == IF key \in DOMAIN counts THEN counts[key] ELSE 0

\* Dropping a key from self._access_count.
Forget(counts, key) == [k \in DOMAIN counts \ {key} |-> counts[k]]

\* TTLCache.get, lines 34-45: what it returns and what it leaves.
get(cache, counts, key) ==
    IF ~ Has(cache, key)
    THEN [out |-> None, cache |-> cache, counts |-> counts]
    ELSE IF cache[Slot(cache, key)].age > ttl
    THEN [out |-> None, cache |-> Del(cache, key), counts |-> counts]
    ELSE [out |-> cache[Slot(cache, key)].value,
          cache |-> cache,
          counts |-> [k \in DOMAIN counts \cup {key} |->
                         IF k = key THEN Count(counts, key) + 1 ELSE counts[k]]]

\* min(self._cache.keys(), key=access count), lines 53-56: the first key,
\* in dict order, among those with the least count.
lru_key(cache, counts) ==
    LET least(i) == \A j \in DOMAIN cache :
                        Count(counts, cache[i].key) <= Count(counts, cache[j].key)
        first == CHOOSE i \in DOMAIN cache :
                     least(i) /\ \A j \in DOMAIN cache : least(j) => i <= j
    IN  cache[first].key

\* A set that never evicts.
SetUnbounded(cache, counts, key, value, size) ==
    [evicted |-> None,
     cache |-> Assign(cache, [key |-> key, age |-> 0, value |-> value]),
     counts |-> counts]

\* TTLCache.set, lines 49-61, for a cache of max_size size (at least 1).
set(cache, counts, key, value, size) ==
    LET full == Len(cache) >= size
        victim == lru_key(cache, counts)
        kept == IF full THEN Del(cache, victim) ELSE cache
    IN  [evicted |-> IF full THEN victim ELSE None,
         cache |-> Assign(kept, [key |-> key, age |-> 0, value |-> value]),
         counts |-> IF full THEN Forget(counts, victim) ELSE counts]

\* The order of use once key has been read or written: key is the newest.
Touch(order, key) ==
    SelectSeq(order, LAMBDA k : k # key) \o <<key>>

\* The order of use restricted to the keys the dict still holds.
Held(order, cache) ==
    SelectSeq(order, LAMBDA k : Has(cache, k))

\* await cache.get(key)
CacheGet(key) ==
    /\ Count(access_count, key) < MaxHits
    /\ LET r == get(ttl_cache, access_count, key)
       IN  /\ ttl_cache' = r.cache
           /\ access_count' = r.counts
           /\ cache_out' = r.out
           /\ used' = IF r.out # None THEN Touch(used, key)
                      ELSE Held(used, r.cache)
    /\ cache_call' = [NoCall EXCEPT !.op = "get", !.key = key]
    /\ UNCHANGED <<func, call_count>>
    /\ UNCHANGED <<rlVars, clVars, taskVars, fetchVars, storeVars, dbVars,
                   serviceVars, embedVars, schedVars>>

\* await cache.set(key, value) on a cache built with max_size = MaxSize
CacheSet(key, value) ==
    /\ LET r == set(ttl_cache, access_count, key, value, MaxSize)
       IN  /\ ttl_cache' = r.cache
           /\ access_count' = r.counts
           /\ used' = Touch(Held(used, r.cache), key)
           /\ cache_call' = [op |-> "set", key |-> key, value |-> value,
                             evicted |-> r.evicted]
    /\ cache_out' = None
    /\ UNCHANGED <<func, call_count>>
    /\ UNCHANGED <<rlVars, clVars, taskVars, fetchVars, storeVars, dbVars,
                   serviceVars, embedVars, schedVars>>

\* await cache.clear(), lines 65-67
CacheClear ==
    /\ ttl_cache' = <<>>
    /\ access_count' = <<>>
    /\ used' = <<>>
    /\ cache_call' = [NoCall EXCEPT !.op = "clear"]
    /\ cache_out' = None
    /\ UNCHANGED <<func, call_count>>
    /\ UNCHANGED <<rlVars, clVars, taskVars, fetchVars, storeVars, dbVars,
                   serviceVars, embedVars, schedVars>>

\* A second passes on time.time(): every entry is a second older.  An
\* age past ttl is kept at ttl + 1, the code only asks whether it is.
CacheTick ==
    /\ \E i \in DOMAIN ttl_cache : ttl_cache[i].age <= ttl
    /\ ttl_cache' = [i \in DOMAIN ttl_cache |->
                        [ttl_cache[i] EXCEPT !.age = Min(@ + 1, ttl + 1)]]
    /\ UNCHANGED <<access_count, cache_call, cache_out, used, func, call_count>>
    /\ UNCHANGED <<rlVars, clVars, taskVars, fetchVars, storeVars, dbVars,
                   serviceVars, embedVars, schedVars>>

\* A TTLCache(ttl, max_size) nobody has used; every other component idle.
InitTTLCache == InitEmbed

NextTTLCache ==
    \/ \E key \in CacheKeys : CacheGet(key)
    \/ \E key \in CacheKeys, value \in CacheValues : CacheSet(key, value)
    \/ CacheClear
    \/ CacheTick

SpecTTLCache == InitTTLCache /\ [][NextTTLCache]_vars

\* ---------------------------------------------------------------------
\* The cached decorator (utils/cache.py, lines 79-109)

\* Calls of the wrapped function counted per argument.
MaxCalls == 2

\* The arguments the wrapper is called with, as str(args), and what a
\* wrapped function does with one: it returns a value, returns None, or
\* raises.
CallArgs == {"(5,)", "(-1,)"}
Raising == "raises"
FuncOutcomes == {"r", None, Raising}

\* TTLCache._make_key, lines 29-30: md5 of the text of the arguments.  The
\* digest is taken to be free of collisions: the key is the argument.
make_key(x) == x

\* @cached(ttl) applied to f: line 85 builds the cache, TTLCache(ttl=ttl)
\* with the default max_size, and the decorator returns the wrapper.
Wrap(f) ==
    /\ func = <<>>
    /\ func' = f
    /\ call_count' = [x \in DOMAIN f |-> 0]
    /\ ttl_cache' = <<>>
    /\ access_count' = <<>>
    /\ used' = <<>>
    /\ cache_call' = NoCall
    /\ cache_out' = None
    /\ UNCHANGED <<rlVars, clVars, taskVars, fetchVars, storeVars, dbVars,
                   serviceVars, embedVars, schedVars>>

\* What wrapper(x) does, lines 88-101: the value it returns (Raising when
\* func raised), whether func ran, and the cache it leaves.
wrapper(cache, counts, x) ==
    LET key == make_key(x)
        hit == get(cache, counts, key)
        stored == set(hit.cache, hit.counts, key, func[x], DefaultMaxSize)
    IN  IF hit.out # None
        THEN [out |-> hit.out, ran |-> FALSE,
              cache |-> hit.cache, counts |-> hit.counts]
        ELSE IF func[x] = Raising
        THEN [out |-> Raising, ran |-> TRUE,
              cache |-> hit.cache, counts |-> hit.counts]
        ELSE [out |-> func[x], ran |-> TRUE,
              cache |-> stored.cache, counts |-> stored.counts]

\* await wrapper(x), calls one after the other.
CachedCall(x) ==
    /\ func # <<>>
    /\ call_count[x] < MaxCalls
    /\ Count(access_count, make_key(x)) < MaxHits
    /\ LET r == wrapper(ttl_cache, access_count, x)
       IN  /\ ttl_cache' = r.cache
           /\ access_count' = r.counts
           /\ cache_out' = r.out
           /\ call_count' = [call_count EXCEPT ![x] = IF r.ran THEN @ + 1 ELSE @]
           /\ used' = IF Has(r.cache, make_key(x))
                      THEN Touch(Held(used, r.cache), make_key(x))
                      ELSE Held(used, r.cache)
    /\ cache_call' = [NoCall EXCEPT !.op = "call", !.key = x]
    /\ UNCHANGED func
    /\ UNCHANGED <<rlVars, clVars, taskVars, fetchVars, storeVars, dbVars,
                   serviceVars, embedVars, schedVars>>

InitCached == InitEmbed

NextCached ==
    \/ \E f \in [CallArgs -> FuncOutcomes] : Wrap(f)
    \/ \E x \in CallArgs : CachedCall(x)
    \/ CacheTick

SpecCached == InitCached /\ [][NextCached]_vars

\* ---------------------------------------------------------------------
\* Scheduler (scheduler/scheduler.py)

\* Executions of _run_task in a behaviour.
MaxExecutions == 2

\* Task names (setup_default_tasks), and cron expressions as the fields
\* split() finds in them: two of the tests' valid ones and "invalid cron".
TaskNames == {"collect_rss", "daily_digest"}
Crons == { <<"0", "*", "*", "*", "*">>, <<"30", "*", "*", "*", "*">>,
           <<"invalid", "cron">> }

\* CronTrigger.from_crontab (line 70) raises ValueError unless the
\* expression has five fields.
ValidCron(expr) == Len(expr) = 5

\* How an await of task.task_func ends: it returns, raises an Exception,
\* or raises asyncio.CancelledError, which is a BaseException and no
\* Exception.
TaskOutcomes == {"returned", "Exception", "CancelledError"}

\* ScheduledTask.__init__, lines 36-45.  next_run stays None: the
\* AsyncIOScheduler has not been started, its jobs have no next_run_time.
\* last_run is <<>> for None and <<t>> for the time t.
ScheduledTask(expr) ==
    [cron_expression |-> expr, last_run |-> <<>>, next_run |-> None,
     run_count |-> 0, error_count |-> 0, last_error |-> None]

\* A dict without key name.
Without(d, name) == [n \in DOMAIN d \ {name} |-> d[n]]

\* A dict with d[name] = value.
With(d, name, value) ==
    [n \in DOMAIN d \cup {name} |-> IF n = name THEN value ELSE d[n]]

\* Scheduler.remove_task, lines 101-104: what it leaves of the registry
\* and of the jobs.
remove_task(registry, scheduled, name) ==
    IF name \in DOMAIN registry
    THEN [tasks |-> Without(registry, name), jobs |-> Without(scheduled, name)]
    ELSE [tasks |-> registry, jobs |-> scheduled]

\* Scheduler.add_task(ScheduledTask(name, expr)), lines 64-88
AddTask(name, expr) ==
    /\ LET left == remove_task(tasks, jobs, name)
       IN  IF ValidCron(expr)
           THEN /\ jobs' = With(left.jobs, name, expr)
                /\ tasks' = With(left.tasks, name, ScheduledTask(expr))
                /\ sched_out' = None
           ELSE /\ jobs' = left.jobs
                /\ tasks' = left.tasks
                /\ sched_out' = "ValueError"
    /\ sched_call' = [op |-> "add_task", name |-> name]
    /\ UNCHANGED executions
    /\ UNCHANGED <<rlVars, clVars, taskVars, fetchVars, storeVars, dbVars,
                   serviceVars, embedVars, cacheVars>>

\* Scheduler.remove_task(name)
RemoveTask(name) ==
    /\ tasks' = remove_task(tasks, jobs, name).tasks
    /\ jobs' = remove_task(tasks, jobs, name).jobs
    /\ sched_call' = [op |-> "remove_task", name |-> name]
    /\ sched_out' = None
    /\ UNCHANGED executions
    /\ UNCHANGED <<rlVars, clVars, taskVars, fetchVars, storeVars, dbVars,
                   serviceVars, embedVars, cacheVars>>

\* A _run_task that counts a failed execution as a run as well.
run_task_counting_all(task, outcome, start_time) ==
    IF outcome = "returned"
    THEN [task EXCEPT !.last_run = <<start_time>>, !.run_count = @ + 1,
                      !.last_error = None]
    ELSE IF outcome = "Exception"
    THEN [task EXCEPT !.run_count = @ + 1, !.error_count = @ + 1,
                      !.last_error = "Task failed"]
    ELSE task

\* Scheduler._run_task(task), lines 112-137, for the task registered under
\* name (its job fires, or run_task_now): the task after the execution.
\* start_time is the number of the execution.
run_task(task, outcome, start_time) ==
    IF outcome = "returned"
    THEN [task EXCEPT !.last_run = <<start_time>>, !.run_count = @ + 1,
                      !.last_error = None]
    ELSE IF outcome = "Exception"
    THEN [task EXCEPT !.error_count = @ + 1, !.last_error = "Task failed"]
    ELSE task

RunTask(name, outcome) ==
    /\ name \in DOMAIN tasks
    /\ executions < MaxExecutions
    /\ executions' = executions + 1
    /\ tasks' = [tasks EXCEPT ![name] = run_task(@, outcome, executions + 1)]
    /\ sched_out' = IF outcome = "CancelledError" THEN "CancelledError" ELSE None
    /\ sched_call' = [op |-> "_run_task", name |-> name]
    /\ UNCHANGED jobs
    /\ UNCHANGED <<rlVars, clVars, taskVars, fetchVars, storeVars, dbVars,
                   serviceVars, embedVars, cacheVars>>

InitSched == InitEmbed

NextSched ==
    \/ \E name \in TaskNames, expr \in Crons : AddTask(name, expr)
    \/ \E name \in TaskNames : RemoveTask(name)
    \/ \E name \in TaskNames, outcome \in TaskOutcomes : RunTask(name, outcome)

SpecSched == InitSched /\ [][NextSched]_vars

\* C31: a set of a new key on a full cache evicts the key whose last get
\* or set is the oldest, and no other key.
LruEvicted ==
    [][\A key \in CacheKeys, value \in CacheValues :
          (/\ Len(ttl_cache) >= MaxSize
           /\ ~ Has(ttl_cache, key)
           /\ CacheSet(key, value))
          => /\ ~ Has(ttl_cache', used[1])
             /\ \A k \in CacheKeys \ {used[1]} :
                    Has(ttl_cache, k) => Has(ttl_cache', k)
      ]_vars

\* C37: the cache never holds more than max_size entries, whatever calls
\* of get, set and clear interleave, and in the state a set(key, value)
\* leaves there is exactly one entry for key, with that value.
SizeBounded ==
    /\ Len(ttl_cache) <= MaxSize
    /\ cache_call.op = "set"
       => /\ Cardinality(Slots(ttl_cache, cache_call.key)) = 1
          /\ ttl_cache[Slot(ttl_cache, cache_call.key)].value = cache_call.value

\* A set has evicted an entry of the full cache and stored its key.
SetEvicted ==
    /\ cache_call.op = "set"
    /\ cache_call.evicted # None
    /\ Len(ttl_cache) = MaxSize
    /\ Has(ttl_cache, cache_call.key)

\* The cache of the wrapper holds an entry for x that has not expired: an
\* earlier call with x returned inside the TTL.
Fresh(x) ==
    /\ Has(ttl_cache, make_key(x))
    /\ ttl_cache[Slot(ttl_cache, make_key(x))].age <= ttl

\* C32: a call of the wrapper with arguments an earlier call returned for
\* inside the TTL does not run the function and returns the function's
\* result; a call in which the function raises leaves nothing cached.
CachedOnce ==
    [][\A x \in CallArgs :
          CachedCall(x)
          => /\ Fresh(x) => /\ call_count' = call_count
                            /\ cache_out' = func[x]
             /\ (~ Fresh(x) /\ func[x] = Raising)
                => /\ call_count'[x] = call_count[x] + 1
                   /\ ~ Has(ttl_cache', make_key(x))
      ]_vars

\* The statement of C33 for the execution of name's task that ends with
\* outcome: _run_task returns normally and one counter went up by one.
CountedOnce(name, outcome) ==
    /\ sched_out' = None
    /\ \/ /\ outcome = "returned"
          /\ tasks'[name].run_count = tasks[name].run_count + 1
          /\ tasks'[name].error_count = tasks[name].error_count
          /\ tasks'[name].last_error = None
       \/ /\ outcome # "returned"
          /\ tasks'[name].error_count = tasks[name].error_count + 1
          /\ tasks'[name].run_count = tasks[name].run_count
          /\ tasks'[name].last_run = tasks[name].last_run
          /\ tasks'[name].last_error # None

\* C33 as stated: every execution of _run_task returns normally and adds
\* one to exactly one counter of the task: to run_count, clearing
\* last_error, when the task function returned; to error_count, setting
\* last_error and leaving run_count and last_run alone, when it raised.
RunCounted ==
    [][\A name \in TaskNames, outcome \in TaskOutcomes :
          RunTask(name, outcome) => CountedOnce(name, outcome)
      ]_vars

\* C33, amended: the same for every execution in which the task function
\* returns or raises an Exception; an execution in which it raises
\* asyncio.CancelledError ends with that exception and changes nothing
\* of the task.
RunCountedUnlessCancelled ==
    [][\A name \in TaskNames, outcome \in TaskOutcomes :
          RunTask(name, outcome)
          => IF outcome = "CancelledError"
             THEN sched_out' = "CancelledError" /\ tasks' = tasks
             ELSE CountedOnce(name, outcome)
      ]_vars

\* A task has failed in one execution and succeeded in another.
RanAndFailed ==
    \E name \in DOMAIN tasks :
        /\ tasks[name].run_count = 1
        /\ tasks[name].error_count = 1
        /\ tasks[name].last_run # <<>>

\* C40: add_task with an invalid cron expression raises ValueError and
\* leaves registry and jobs as they were; add_task with a valid one leaves
\* one task and one job under the name, with the new expression.
AddTaskAtomic ==
    [][\A name \in TaskNames, expr \in Crons :
          AddTask(name, expr)
          => IF ValidCron(expr)
             THEN /\ sched_out' = None
                  /\ name \in DOMAIN tasks' /\ name \in DOMAIN jobs'
                  /\ tasks'[name].cron_expression = expr
                  /\ jobs'[name] = expr
                  /\ \A n \in TaskNames \ {name} :
                         /\ n \in DOMAIN tasks' <=> n \in DOMAIN tasks
                         /\ n \in DOMAIN jobs' <=> n \in DOMAIN jobs
             ELSE /\ sched_out' = "ValueError"
                  /\ tasks' = tasks
                  /\ jobs' = jobs
      ]_vars

StatsAccount ==
    [][(cs_pc = "store" /\ cs_pc' = "idle")
       => LET dups == {i \in DOMAIN collected : verdicts'[i].is_duplicate}
              inserted == news_items' \ news_items
              lost == {i \in DOMAIN collected \ dups :
                          collected[i] \notin news_items'}
          IN  /\ returned'.kind = "returned"
              /\ returned'.stats.total = Len(collected)
              /\ returned'.stats.new = Len(returned'.novel_items)
              /\ returned'.stats.duplicates = Cardinality(dups)
              /\ returned'.stats.new + returned'.stats.duplicates
                     + Cardinality(lost) = returned'.stats.total
              /\ \A k \in DOMAIN returned'.novel_items :
                     /\ returned'.novel_items[k] \in inserted
                     /\ \E i \in DOMAIN collected \ dups :
                            collected[i] = returned'.novel_items[k]
                     /\ \A j \in DOMAIN returned'.novel_items :
                            returned'.novel_items[j] = returned'.novel_items[k]
                            => j = k
              /\ \A i \in dups : collected[i] \notin inserted
      ]_vars

EmptyWindowLoaded ==
    /\ cache_loaded
    /\ items_cache = <<>>
    /\ checked # NotCalled

\* The response of a step of source t carried the given status.
Answered(t, status) ==
    \E items \in Payloads \cup {<<>>} : FetchStatus(t, status, items)

\* C39 as stated: an attempt is classified Success, and its payload parsed,
\* if and only if the response status is a 2xx code, and every 2xx response
\* ends the retry loop of its source.
SuccessIff2xx ==
    [][\A t \in Tasks, status \in Statuses :
           Answered(t, status)
           => /\ (status \in 200..299) <=> (pc'[t] = "success")
              /\ (status \in 200..299) => pc'[t] # "backoff"
      ]_vars

\* C39, amended: an attempt is classified Success, and its payload parsed,
\* if and only if the response status is 200, and every response with status
\* 200 whose body is read and parsed ends the retry loop of its source; any
\* other status, the other 2xx codes included, counts as a failed attempt
\* that is retried or, at the attempt cap, ends the source as Failed.
SuccessIff200 ==
    [][\A t \in Tasks, status \in Statuses :
           Answered(t, status)
           => /\ (status = 200) <=> (pc'[t] = "success")
              /\ status = 200
                    => \E items \in Payloads :
                           result'[t] = parse(items, rss_feeds[t].name)
              /\ status # 200
                    => /\ pc'[t] = (IF attempt[t] < max_retries - 1
                                     THEN "backoff" ELSE "failed")
                       /\ failures'[t] = failures[t] + 1
                       /\ result'[t] = result[t] \/ result'[t] = <<>>
      ]_vars

\* One source has ended with Success while another, answered with a status
\* other than 200, waits for its next attempt: no attempt of the cycle has
\* met an exception other than that of the status check.
RetriedByStatus ==
    /\ status_only
    /\ \E t \in Tasks : pc[t] = "success" /\ result[t] # <<>>
    /\ \E t \in Tasks : pc[t] = "backoff" /\ failures[t] > 0

\* C38 as stated: the deduplication of the batch and the age filter commute:
\* whenever a fetched item is published inside the max_age window, collect
\* returns an item with its id.
FreshCopyCollected ==
    [][CollectReturns =>
          \A item \in Range(Fetched) :
              IsRecent(item) => \E kept \in Range(collected') : kept.id = item.id
      ]_vars

\* C38, amended: the deduplication of the batch runs before the age filter
\* and the two do not commute: collect returns an item with a given id
\* exactly when the first-seen fetched copy of that id is published inside
\* the max_age window, and the item returned is that copy.
FirstSeenCopyDecides ==
    [][CollectReturns =>
          \A i \in DOMAIN Fetched :
              (\A j \in 1..(i - 1) : Fetched[j].id # Fetched[i].id)
              => /\ IsRecent(Fetched[i]) <=> Fetched[i] \in Range(collected')
                 /\ \A kept \in Range(collected') :
                        kept.id = Fetched[i].id => kept = Fetched[i]
      ]_vars

\* Two sources carried the same id, the first-seen copy published at the
\* cutoff and the later copy an hour ago: collect has returned other items
\* and none with that id.
StaleCopySuppressedFresh ==
    /\ \A t \in Tasks : pc[t] = "idle"
    /\ collected # <<>>
    /\ \E i \in DOMAIN result[1], j \in DOMAIN result[2] :
           /\ result[1][i].id = result[2][j].id
           /\ ~IsRecent(result[1][i])
           /\ IsRecent(result[2][j])
           /\ result[1][i] \in Range(all_items)
           /\ \A kept \in Range(collected) : kept.id # result[2][j].id

====
